---------------------------- MODULE Spec2Model ----------------------------
(***************************************************************************)
(* RasTI: launching an executable under the TrustedInstaller identity.     *)
(*                                                                         *)
(* The module models the core of the repository (src/Src/Core.cpp), the    *)
(* resource guards of src/Inc/Core.h and the two front-ends                *)
(* (src/Src/Main.cpp, src/Src/Form.cpp) that drive it.                     *)
(*                                                                         *)
(* Text is a sequence of one-character strings, 1-based like AnsiString.   *)
(* Every operating-system primitive is a nondeterministic outcome chosen   *)
(* by the action that calls it; every call is appended to `log`.           *)
(***************************************************************************)
EXTENDS Integers, Sequences, FiniteSets, TLC

VARIABLES
    pc,                   \* control location of the running front-end
    runs,                 \* launch chains started so far
    frontend,             \* "CLI" (RunExecutableFromCommandLine) or "GUI" (RunButtonClick)
    rawPath,              \* the text handed to the front-end
    path,                 \* the front-end's local `path`
    priority,             \* the priority class the front-end passes on
    pRtlAdjustPrivilege,  \* global binding: TRUE when resolved, FALSE when NULL
    pLogonUserExExW,      \* global binding: TRUE when resolved, FALSE when NULL
    threadImpersonating,  \* OS state: the calling thread carries an impersonation token
    gt,                   \* locals of GetTrustedInstallerToken
    cp,                   \* locals of CreateProcessWithTIToken
    res,                  \* OS resource table: resource -> "none" | "held" | "released"
    badRelease,           \* resources released while not held (double or spurious release)
    log,                  \* calls made and results returned in the current run, in order
    validation,           \* what ValidateExecutablePath computed in the current run
    probe                 \* the input and result of a directly called function

vars == <<pc, runs, frontend, rawPath, path, priority, pRtlAdjustPrivilege,
          pLogonUserExExW, threadImpersonating, gt, cp, res, badRelease, log,
          validation, probe>>

-----------------------------------------------------------------------------
(* Program constants                                                       *)

SE_TCB_PRIVILEGE == 7
SE_DEBUG_PRIVILEGE == 20
SE_IMPERSONATE_PRIVILEGE == 29
SeTcbPrivilege == SE_TCB_PRIVILEGE
SeDebugPrivilege == SE_DEBUG_PRIVILEGE
SeImpersonatePrivilege == SE_IMPERSONATE_PRIVILEGE

\* The value the test-suite uses for "no such privilege".
InvalidPrivilegeProbe == 99999

\* A success test that accepts STATUS_SUCCESS alone.
StatusIsZero(status) == status = 0

\* NT_SUCCESS(status) ((status) >= 0)
NT_SUCCESS(status) == status >= 0

-----------------------------------------------------------------------------
(* Bounds of the model                                                     *)

\* Privilege identifiers 0..MaxPrivilegeValue are tried against EnablePrivilege.
MaxPrivilegeValue == 36

\* NTSTATUS values RtlAdjustPrivilege may return (signed 32 bit): two error
\* codes, -1, success, and two non-negative informational codes.
NtStatuses == {-1073741727, -1073741790, -1, 0, 1, 1073741824}

-----------------------------------------------------------------------------
(* PrivilegeManager: EnablePrivilege                                       *)

\* The call EnablePrivilege makes on the resolved binding.
RtlAdjustPrivilegeCall(privilege_value, enable, thread) ==
    <<"RtlAdjustPrivilege", privilege_value, enable, thread>>

\* A switch statement without a default branch: every value goes on.
AnyPrivilege(privilege_value) == TRUE

\* The whitelist of the switch statement.
IsWhitelistedPrivilege(privilege_value) ==
    privilege_value \in {SE_TCB_PRIVILEGE, SE_DEBUG_PRIVILEGE, SE_IMPERSONATE_PRIVILEGE}

\* EnablePrivilege(impersonating, privilege_value), given the status the
\* primitive returns if it is reached: the returned bool and the calls made.
EnablePrivilege(impersonating, privilege_value, status) ==
    IF ~pRtlAdjustPrivilege
    THEN [ret |-> FALSE, calls |-> <<>>]
    ELSE IF ~IsWhitelistedPrivilege(privilege_value)
    THEN [ret |-> FALSE, calls |-> <<>>]
    ELSE [ret   |-> NT_SUCCESS(status),
          calls |-> <<RtlAdjustPrivilegeCall(privilege_value, TRUE, impersonating)>>]

\* The log of one EnablePrivilege call with result r: the calls it made, then
\* its return.
EnablePrivilegeLog(impersonating, privilege_value, r) ==
    r.calls \o <<<<"EnablePrivilege", privilege_value, impersonating, r.ret>>>>

-----------------------------------------------------------------------------
(* Text: AnsiString as a 1-based sequence of characters                    *)

BS == "\\"
Blank == " "

\* MAX_PATH of the platform headers.
MAX_PATH == 260

MinOf(S) == CHOOSE x \in S : \A y \in S : x <= y
MaxOf(S) == CHOOSE x \in S : \A y \in S : x >= y

\* sub occurs in s starting at index i.
OccursAt(sub, s, i) ==
    /\ i + Len(sub) - 1 <= Len(s)
    /\ \A k \in 1..Len(sub) : s[i + k - 1] = sub[k]

\* AnsiString::Pos: 1-based index of the first occurrence, 0 when absent.
Pos(sub, s) ==
    LET hits == {i \in 1..Len(s) : OccursAt(sub, s, i)}
    IN  IF sub = <<>> \/ hits = {} THEN 0 ELSE MinOf(hits)

\* AnsiString::Trim: strips leading and trailing blanks.
RECURSIVE TrimLeft(_)
TrimLeft(s) == IF s # <<>> /\ Head(s) = Blank THEN TrimLeft(Tail(s)) ELSE s
RECURSIVE TrimRight(_)
TrimRight(s) ==
    IF s # <<>> /\ s[Len(s)] = Blank THEN TrimRight(SubSeq(s, 1, Len(s) - 1)) ELSE s
Trim(s) == TrimRight(TrimLeft(s))

\* StringReplace(s, from, to, rfReplaceAll) for single characters.
ReplaceChar(s, from, to) == [i \in 1..Len(s) |-> IF s[i] = from THEN to ELSE s[i]]

\* One StringReplace(path, "\\\\", "\\", rfReplaceAll) pass: left to right,
\* non-overlapping.
RECURSIVE ReplacePairs(_)
ReplacePairs(s) ==
    IF Len(s) < 2 THEN s
    ELSE IF s[1] = BS /\ s[2] = BS
         THEN <<BS>> \o ReplacePairs(SubSeq(s, 3, Len(s)))
         ELSE <<s[1]>> \o ReplacePairs(Tail(s))

\* The while loop around that pass.
RECURSIVE CollapseBackslashes(_)
CollapseBackslashes(s) ==
    IF Pos(<<BS, BS>>, s) > 0 THEN CollapseBackslashes(ReplacePairs(s)) ELSE s

\* AnsiString::LowerCase on the letters the model uses.
LowerChar(c) ==
    CASE c = "C" -> "c" [] c = "D" -> "d" [] c = "E" -> "e" [] c = "X" -> "x"
      [] OTHER -> c
LowerCase(s) == [i \in 1..Len(s) |-> LowerChar(s[i])]

IsLetter(c) == LowerChar(c) \in {"a", "b", "c", "d", "e", "l", "p", "w", "x"}

\* Index of the last character of s that is in set D, 0 when there is none
\* (SysUtils LastDelimiter).
LastDelimiter(D, s) ==
    LET hits == {i \in 1..Len(s) : s[i] \in D}
    IN  IF hits = {} THEN 0 ELSE MaxOf(hits)

\* SysUtils ExtractFileName: the text after the last '\' or ':'.
ExtractFileName(s) == SubSeq(s, LastDelimiter({BS, ":"}, s) + 1, Len(s))

\* SysUtils ExtractFileExt: from the last '.' of the file name, "" when none.
ExtractFileExt(s) ==
    LET i == LastDelimiter({".", BS, ":"}, s)
    IN  IF i > 0 /\ s[i] = "." THEN SubSeq(s, i, Len(s)) ELSE <<>>

\* Concatenation of the segments of a list, separated by sep.
RECURSIVE Join(_, _)
Join(segs, sep) ==
    IF segs = <<>> THEN <<>>
    ELSE IF Len(segs) = 1 THEN segs[1]
    ELSE segs[1] \o <<sep>> \o Join(Tail(segs), sep)

\* The segments of s between occurrences of the characters in D.
RECURSIVE Split(_, _)
Split(s, D) ==
    LET hits == {i \in 1..Len(s) : s[i] \in D}
    IN  IF hits = {} THEN <<s>>
        ELSE LET i == MinOf(hits)
             IN  <<SubSeq(s, 1, i - 1)>> \o Split(SubSeq(s, i + 1, Len(s)), D)

-----------------------------------------------------------------------------
(* The file system and process environment the validator runs against      *)

\* The process's current directory, C:\ww, and its drive.
CurrentDrive == "C"
CurrentDirectory == <<"C", ":", BS, "w", "w">>

\* A directory whose files have full paths longer than MAX_PATH; the system
\* has long paths enabled, so they can be found and opened.
LongDirectory == <<"C", ":", BS>> \o [i \in 1..(MAX_PATH - 8) |-> "d"]

\* Regular files that exist (full paths).
ExistingFiles ==
    { <<"C", ":", BS, "a", ".", "e", "x", "e">>,                   \* C:\a.exe
      <<"C", ":", BS, "w", "w", BS, "a", ".", "e", "x", "e">>,     \* C:\ww\a.exe
      <<"C", ":", BS, "w", "w", BS, "a", ".", "d", "l", "l">>,     \* C:\ww\a.dll
      <<"C", ":", BS, "w", "w", BS, "e", ".", "e", "x", "e">>,     \* C:\ww\e.exe
      <<"C", ":", BS, "w", "w", BS, "l", ".", "e", "x", "e">>,     \* C:\ww\l.exe
      <<"C", ":", BS, "p", BS, "b", ".", "e", "x", "e">>,          \* C:\p\b.exe
      <<"C", ":", BS, "p", "p", BS, "b", ".", "e", "x", "e">>,     \* C:\pp\b.exe
      <<"C", ":", BS, "p", "p", BS, "b", ".", "d", "l", "l">>,     \* C:\pp\b.dll
      LongDirectory \o <<BS, "g", ".", "e", "x", "e">> }          \* 261 characters

\* Those among them that carry no version resource.
UnversionedFiles ==
    { <<"C", ":", BS, "w", "w", BS, "e", ".", "e", "x", "e">> }

\* Those among them that cannot be opened for reading.
UnreadableFiles ==
    { <<"C", ":", BS, "w", "w", BS, "l", ".", "e", "x", "e">> }

\* Values of the PATH environment variable; <<"unset">> stands for getenv
\* returning NULL.
PathUnset == <<"unset">>
PathValues ==
    { PathUnset,
      <<"C", ":", BS, "p", "p">>,                                   \* C:\pp
      <<"C", ":", BS, "w", "w", ";", "C", ":", BS, "p", "p", BS>>,  \* C:\ww;C:\pp\
      <<".", ";", "C", ":", BS, "p", "p">>,                         \* .;C:\pp
      <<"C", ":", BS, "p", ";", "C", ":", BS, "p", "p">>,           \* C:\p;C:\pp
      LongDirectory }

\* Environments of a validator run: whether GetFullPathNameA succeeds on the
\* input, whether it succeeds on the search-path match, and PATH.
ValidatorEnvs == [fullPathOk : BOOLEAN, foundPathOk : BOOLEAN, pathEnv : PathValues]

-----------------------------------------------------------------------------
(* GetFullPathNameA: the OS resolution of a DOS path                       *)

\* One segment between separators, normalised: a segment that ends in a
\* single period loses it; the last segment of a path that does not end in
\* a separator loses all trailing periods and spaces.
RECURSIVE StripTrailing(_)
StripTrailing(seg) ==
    IF seg # <<>> /\ seg[Len(seg)] \in {".", Blank}
    THEN StripTrailing(SubSeq(seg, 1, Len(seg) - 1))
    ELSE seg

NormalSegment(seg, isLast) ==
    IF isLast THEN StripTrailing(seg)
    ELSE IF Len(seg) >= 2 /\ seg[Len(seg)] = "." /\ seg[Len(seg) - 1] # "."
         THEN SubSeq(seg, 1, Len(seg) - 1)
         ELSE seg

\* The directory stack after walking the segments: "." and empty segments
\* are dropped, ".." removes the directory above it and stops at the root.
RECURSIVE Walk(_, _, _)
Walk(stack, segs, endsInSep) ==
    IF segs = <<>> THEN stack
    ELSE LET seg  == Head(segs)
             last == Len(segs) = 1 /\ ~endsInSep
             norm == NormalSegment(seg, last)
         IN  IF seg = <<>> \/ seg = <<".">> THEN Walk(stack, Tail(segs), endsInSep)
             ELSE IF seg = <<".", ".">>
                  THEN Walk(IF stack = <<>> THEN stack
                            ELSE SubSeq(stack, 1, Len(stack) - 1),
                            Tail(segs), endsInSep)
             ELSE IF norm = <<>> THEN Walk(stack, Tail(segs), endsInSep)
             ELSE Walk(Append(stack, norm), Tail(segs), endsInSep)

\* The directories of the current directory below its drive root.
CurrentDirectorySegments == Split(SubSeq(CurrentDirectory, 4, Len(CurrentDirectory)), {BS})

\* A path names a drive when it starts with a letter and a colon.
HasDrive(t) == Len(t) >= 2 /\ t[2] = ":" /\ IsLetter(t[1])

\* The kind of a non-empty path: "X:\..." is absolute; "X:..." is relative
\* to the current directory of drive X, which is the root for a drive other
\* than the current one; "\..." is rooted on the current drive; anything
\* else is relative to the current directory.
PathKind(t) ==
    IF HasDrive(t)
    THEN IF Len(t) >= 3 /\ t[3] = BS THEN "absolute"
         ELSE IF LowerChar(t[1]) = LowerChar(CurrentDrive) THEN "driveRelative"
         ELSE "otherDrive"
    ELSE IF t[1] = BS THEN "rooted"
    ELSE "relative"

\* The part of the path after its drive and root.
RestOf(t, kind) ==
    CASE kind = "absolute" -> SubSeq(t, 4, Len(t))
      [] kind \in {"driveRelative", "otherDrive"} -> SubSeq(t, 3, Len(t))
      [] kind = "rooted" -> Tail(t)
      [] OTHER -> t

\* The drive root the result starts with, and the directories the walk
\* starts from.
RootOf(t, kind) ==
    IF kind \in {"absolute", "otherDrive"} THEN <<t[1], ":", BS>>
    ELSE <<CurrentDrive, ":", BS>>
BaseOf(kind) ==
    IF kind \in {"driveRelative", "relative"} THEN CurrentDirectorySegments ELSE <<>>

\* The last segment was a name made of periods and spaces only: it is
\* dropped and the separator before it stays.
LastDropped(seg) ==
    seg \notin {<<>>, <<".">>, <<".", ".">>} /\ StripTrailing(seg) = <<>>

\* The result keeps a trailing separator.
KeepsSeparator(segs, endsInSep) ==
    endsInSep \/ (segs # <<>> /\ LastDropped(segs[Len(segs)]))

Assemble(root, stack, trailing) ==
    root \o Join(stack, BS) \o (IF stack # <<>> /\ trailing THEN <<BS>> ELSE <<>>)

ResolveSegments(root, base, segs, endsInSep) ==
    Assemble(root, Walk(base, segs, endsInSep), KeepsSeparator(segs, endsInSep))

ResolveRest(root, base, rest) ==
    ResolveSegments(root, base,
                    IF rest = <<>> THEN <<>> ELSE Split(rest, {BS}),
                    rest # <<>> /\ rest[Len(rest)] = BS)

ResolveKind(t, kind) == ResolveRest(RootOf(t, kind), BaseOf(kind), RestOf(t, kind))

ResolveBackslashed(t) == ResolveKind(t, PathKind(t))

\* The full path of a non-empty s: '/' becomes '\', then the path is
\* resolved by its kind.  A trailing separator is kept.
FullPathName(s) == ResolveBackslashed(ReplaceChar(s, "/", BS))

-----------------------------------------------------------------------------
(* PathValidator                                                           *)

\* The file a path string names, as the OS resolves it (names compare
\* without regard to case).
ResolvesTo(p, files) ==
    p # <<>> /\ LowerCase(FullPathName(p)) \in {LowerCase(f) : f \in files}

\* SysUtils FileExists.
FileExists(p) == ResolvesTo(p, ExistingFiles)

\* A traversal check that knows the backslash form alone.
BackslashTraversalOnly(p) == Pos(<<".", ".", BS>>, p) = 0

\* IsPathTraversalSafe.
SuspiciousChars == {"<", ">", "\"", "|", "?", "*"}
IsPathTraversalSafe(p) ==
    IF Pos(<<".", ".", BS>>, p) > 0 \/ Pos(<<".", ".", "/">>, p) > 0 THEN FALSE
    ELSE IF Pos(<<BS, ".", ".">>, p) > 0 \/ Pos(<<"/", ".", ".">>, p) > 0 THEN FALSE
    ELSE \A i \in 1..Len(p) : p[i] \notin SuspiciousChars

\* The end of GetCanonicalPath: the trailing-separator test indexes the
\* AnsiString with Length() - 1 and Length() - 2 (1-based), then
\* SubString(1, Length() - 1).
DropTrailingSeparator(canonicalPath) ==
    IF Len(canonicalPath) > 3
       /\ canonicalPath[Len(canonicalPath) - 1] = BS
       /\ canonicalPath[Len(canonicalPath) - 2] # ":"
    THEN SubSeq(canonicalPath, 1, Len(canonicalPath) - 1)
    ELSE canonicalPath

\* The two GetFullPathNameA calls: the size query returns the length with
\* the terminator, the buffer gets one more, the second call returns the
\* length without the terminator; then '/' is replaced by '\'.
FullPathIntoBuffer(full, requiredSize, bufferSize, actualSize) ==
    IF requiredSize = 0 THEN <<>>
    ELSE IF actualSize = 0 \/ actualSize >= bufferSize THEN <<>>
    ELSE DropTrailingSeparator(ReplaceChar(full, "/", BS))

CanonicalOfFull(full) ==
    FullPathIntoBuffer(full, Len(full) + 1, Len(full) + 2, Len(full))

\* How the two GetFullPathNameA calls can answer: both succeed; the size
\* query returns 0; the copying call returns 0; the copying call returns a
\* size that does not fit the buffer.
FullPathAnswers == {"resolved", "sizeQueryFailed", "copyFailed", "copyTooLong"}

RequiredSizeOf(full, answer) ==
    IF answer = "sizeQueryFailed" THEN 0 ELSE Len(full) + 1

BufferSizeOf(full, answer) == RequiredSizeOf(full, answer) + 1

ActualSizeOf(full, answer) ==
    IF answer = "copyFailed" THEN 0
    ELSE IF answer = "copyTooLong" THEN BufferSizeOf(full, answer)
    ELSE Len(full)

CanonicalOfAnswer(full, answer) ==
    FullPathIntoBuffer(full, RequiredSizeOf(full, answer), BufferSizeOf(full, answer),
                       ActualSizeOf(full, answer))

\* GetCanonicalPath(path), given how GetFullPathNameA answers.
GetCanonicalPathOn(p, answer) ==
    IF p = <<>> THEN <<>>
    ELSE CanonicalOfAnswer(FullPathName(p), answer)

\* A canonicalization that hands the input back when the resolution fails.
GetCanonicalPathOrInput(p, fullPathOk) ==
    IF p = <<>> THEN <<>>
    ELSE IF ~fullPathOk THEN p
    ELSE CanonicalOfFull(FullPathName(p))

\* GetCanonicalPath, given whether GetFullPathNameA succeeds.
GetCanonicalPath(p, fullPathOk) ==
    IF p = <<>> THEN <<>>
    ELSE IF ~fullPathOk THEN <<>>
    ELSE CanonicalOfFull(FullPathName(p))

\* What IsValidExecutable finds: GetFileVersionInfoSizeA returns 0 for a
\* missing file or one without version resource; CreateFileA fails on an
\* unreadable one.
ExecutableProbe(p) ==
    IF ~ResolvesTo(p, ExistingFiles \ UnversionedFiles) THEN "noVersionInfo"
    ELSE IF ResolvesTo(p, UnreadableFiles) THEN "cannotOpen"
    ELSE "opened"

\* IsValidExecutable.
IsValidExecutable(p) == ExecutableProbe(p) = "opened"

\* The OS calls IsValidExecutable makes for each finding.
IsValidExecutableCalls(found) ==
    CASE found = "noVersionInfo" -> <<"GetFileVersionInfoSizeA">>
      [] found = "cannotOpen" -> <<"GetFileVersionInfoSizeA", "CreateFileA">>
      [] OTHER -> <<"GetFileVersionInfoSizeA", "CreateFileA", "CloseHandle">>

\* The entries of PATH as TStringList.DelimitedText yields them with
\* Delimiter ';' (blanks separate entries too), trimmed, empty ones skipped.
RECURSIVE NonEmpty(_)
NonEmpty(list) ==
    IF list = <<>> THEN <<>>
    ELSE IF Trim(Head(list)) = <<>> THEN NonEmpty(Tail(list))
    ELSE <<Trim(Head(list))>> \o NonEmpty(Tail(list))
PathEntries(pathEnv) == NonEmpty(Split(pathEnv, {";", Blank}))

\* The directory prefix FindExecutableInPath builds: a separator is added
\* unless dir[dir.Length() - 1] (1-based) is one.  The index is 0 for a
\* one-character entry: see FirstExisting.
DirectoryPrefix(dir) ==
    IF Len(dir) >= 2 /\ dir[Len(dir) - 1] # BS THEN dir \o <<BS>> ELSE dir

\* What stands for an ERangeError leaving a function: AnsiString's
\* operator[] throws it for an index outside 1..Length().
Raised == <<"ERangeError">>

\* The first candidate of the list that exists, "" when none does.  A
\* one-character entry makes dir[dir.Length() - 1] an access at index 0.
RECURSIVE FirstExisting(_, _)
FirstExisting(dirs, searchName) ==
    IF dirs = <<>> THEN <<>>
    ELSE IF Len(Head(dirs)) = 1 THEN Raised
    ELSE LET fullPath == DirectoryPrefix(Head(dirs)) \o searchName
         IN  IF FileExists(fullPath) THEN fullPath
             ELSE FirstExisting(Tail(dirs), searchName)

\* FindExecutableInPath.
FindExecutableInPath(exeName, pathEnv) ==
    IF pathEnv = PathUnset THEN <<>>
    ELSE LET searchName == IF ExtractFileExt(exeName) = <<>>
                           THEN exeName \o <<".", "e", "x", "e">>
                           ELSE exeName
         IN  FirstExisting(PathEntries(pathEnv), searchName)

\* An allow-list that also holds ".dll".
ExtensionsWithDll ==
    { <<".", "e", "x", "e">>, <<".", "b", "a", "t">>,
      <<".", "c", "m", "d">>, <<".", "c", "o", "m">>, <<".", "d", "l", "l">> }

AllowedExtensions ==
    { <<".", "e", "x", "e">>, <<".", "b", "a", "t">>,
      <<".", "c", "m", "d">>, <<".", "c", "o", "m">> }

\* The answer of ValidateExecutablePath: the returned bool, the validation
\* that decided it, the local validatedPath it checked last and the OS
\* calls made.
Verdict(ret, stage, validatedPath, calls) ==
    [ret |-> ret, stage |-> stage, validatedPath |-> validatedPath, calls |-> calls]

\* VALIDATION 7 on validatedPath.
ValidateExecutable(validatedPath, calls, found) ==
    Verdict(found = "opened", "executable", validatedPath,
            calls \o IsValidExecutableCalls(found))

\* VALIDATION 6 and 7 on the path chosen by VALIDATION 5.
ValidateFinalPath(validatedPath, calls) ==
    IF LowerCase(ExtractFileExt(validatedPath)) \notin AllowedExtensions
    THEN Verdict(FALSE, "extension", validatedPath, calls)
    ELSE ValidateExecutable(validatedPath, calls, ExecutableProbe(validatedPath))

\* A rejection before a final path was chosen.
Rejected(stage, calls) == Verdict(FALSE, stage, <<>>, calls)

\* VALIDATION 5, second half: the search-path match is canonicalized and
\* checked again.
ValidateFoundPath(foundPath, canonicalFoundPath, calls) ==
    IF foundPath = <<>> THEN Rejected("notFound", calls)
    ELSE IF canonicalFoundPath # <<>> /\ IsPathTraversalSafe(canonicalFoundPath)
    THEN ValidateFinalPath(canonicalFoundPath, calls \o <<"GetFullPathNameA">>)
    ELSE Rejected("foundCanonical", calls \o <<"GetFullPathNameA">>)

\* FindExecutableInPath has returned, or an exception passes through
\* ValidateExecutablePath, which catches nothing.
SearchPathFallback(foundPath, env, calls) ==
    IF foundPath = Raised THEN Verdict(FALSE, "raised", <<>>, calls)
    ELSE ValidateFoundPath(foundPath, GetCanonicalPath(foundPath, env.foundPathOk), calls)

\* VALIDATION 3 (result), 4 and 5 on the canonical path.
ValidateCanonicalPath(canonicalPath, env, calls) ==
    IF canonicalPath = <<>> THEN Rejected("canonical", calls)
    ELSE IF Len(canonicalPath) > MAX_PATH THEN Rejected("canonicalLength", calls)
    ELSE IF ~IsPathTraversalSafe(canonicalPath) THEN Rejected("canonicalTraversal", calls)
    ELSE IF FileExists(canonicalPath)
    THEN ValidateFinalPath(canonicalPath, calls \o <<"FileExists">>)
    ELSE SearchPathFallback(
             FindExecutableInPath(ExtractFileName(canonicalPath), env.pathEnv),
             env, calls \o <<"FileExists", "getenv">>)

\* A validator whose first step knows the empty path alone.
ValidateWithoutLengthCheck(p, env) ==
    IF p = <<>> THEN Rejected("empty", <<>>)
    ELSE IF ~IsPathTraversalSafe(p) THEN Rejected("traversal", <<>>)
    ELSE ValidateCanonicalPath(GetCanonicalPath(p, env.fullPathOk), env,
                               <<"GetFullPathNameA">>)

\* ValidateExecutablePath(path) in environment env.
ValidateExecutablePath(p, env) ==
    IF p = <<>> THEN Rejected("empty", <<>>)
    ELSE IF Len(p) > MAX_PATH THEN Rejected("length", <<>>)
    ELSE IF ~IsPathTraversalSafe(p) THEN Rejected("traversal", <<>>)
    ELSE ValidateCanonicalPath(GetCanonicalPath(p, env.fullPathOk), env,
                               <<"GetFullPathNameA">>)

\* SanitizePath(path), given whether GetCurrentDirectoryA succeeds: the new
\* value of path and the returned bool.
\* A SanitizePath without the loop that removes doubled backslashes.
SanitizePathUncollapsed(p, cwdOk) ==
    LET t == Trim(p)
        delimiterFirst == t # <<>> /\ t[1] = BS
        q == IF ~delimiterFirst /\ Pos(<<":">>, t) # 2
             THEN IF Pos(<<BS>>, t) = 0 /\ Pos(<<"/">>, t) = 0 THEN t
                  ELSE IF cwdOk THEN CurrentDirectory \o <<BS>> \o t
                  ELSE t
             ELSE t
        r == ReplaceChar(q, "/", BS)
    IN  [path |-> r, ret |-> r # <<>>]

SanitizePath(p, cwdOk) ==
    LET t == Trim(p)
        delimiterFirst == t # <<>> /\ t[1] = BS
        q == IF ~delimiterFirst /\ Pos(<<":">>, t) # 2
             THEN IF Pos(<<BS>>, t) = 0 /\ Pos(<<"/">>, t) = 0 THEN t
                  ELSE IF cwdOk THEN CurrentDirectory \o <<BS>> \o t
                  ELSE t
             ELSE t
        r == CollapseBackslashes(ReplaceChar(q, "/", BS))
    IN  [path |-> r, ret |-> r # <<>>]

\* The six priority classes of the platform headers.
IDLE_PRIORITY_CLASS == 64
BELOW_NORMAL_PRIORITY_CLASS == 16384
NORMAL_PRIORITY_CLASS == 32
ABOVE_NORMAL_PRIORITY_CLASS == 32768
HIGH_PRIORITY_CLASS == 128
REALTIME_PRIORITY_CLASS == 256

\* A priority check that accepts every value.
AnyPriority(prio) == TRUE

\* A validation that also takes the numbers 1 to 6 of the command line.
ClassOrNumber(prio) ==
    prio \in {IDLE_PRIORITY_CLASS, BELOW_NORMAL_PRIORITY_CLASS, NORMAL_PRIORITY_CLASS,
              ABOVE_NORMAL_PRIORITY_CLASS, HIGH_PRIORITY_CLASS, REALTIME_PRIORITY_CLASS}
    \/ prio \in 1..6

\* ValidatePriorityValue.
ValidatePriorityValue(prio) ==
    \/ prio = IDLE_PRIORITY_CLASS
    \/ prio = BELOW_NORMAL_PRIORITY_CLASS
    \/ prio = NORMAL_PRIORITY_CLASS
    \/ prio = ABOVE_NORMAL_PRIORITY_CLASS
    \/ prio = HIGH_PRIORITY_CLASS
    \/ prio = REALTIME_PRIORITY_CLASS

\* The switch of both front-ends from a number 1..6 to a priority class.
PriorityClassOf(n) ==
    CASE n = 1 -> IDLE_PRIORITY_CLASS
      [] n = 2 -> BELOW_NORMAL_PRIORITY_CLASS
      [] n = 3 -> NORMAL_PRIORITY_CLASS
      [] n = 4 -> ABOVE_NORMAL_PRIORITY_CLASS
      [] n = 5 -> HIGH_PRIORITY_CLASS
      [] n = 6 -> REALTIME_PRIORITY_CLASS
      [] OTHER -> NORMAL_PRIORITY_CLASS

\* MultiByteToWideChar(CP_ACP) on the characters of the model: each byte
\* becomes the wide character of the same code point.
WideChar(c) == <<"L", c>>
MultiByteToWideChar(p) == [i \in 1..Len(p) |-> WideChar(p[i])]

-----------------------------------------------------------------------------
(* OS resources and the SmartHandle guard                                  *)

\* Everything the launch chain can acquire from the OS.
Resources ==
    { "snapshot", "winlogonProcess", "winlogonToken",   \* ImpersonateTcbToken
      "sid", "threadToken", "processToken", "groupsBuffer", \* GetTrustedInstallerToken
      "tiToken", "newProcess", "newThread" }            \* CreateProcessWithTIToken

NoResources == [r \in Resources |-> "none"]

\* The table and the bad releases after a list of effects, each
\* <<"acquire", r>> or <<"release", r>>, applied in order.
RECURSIVE ApplyEffects(_, _)
ApplyEffects(state, effects) ==
    IF effects = <<>> THEN state
    ELSE LET e == Head(effects)
             r == e[2]
             next ==
                 IF e[1] = "acquire"
                 THEN [state EXCEPT !.table[r] = "held"]
                 ELSE IF state.table[r] = "held"
                      THEN [state EXCEPT !.table[r] = "released"]
                      ELSE [state EXCEPT !.bad = @ \cup {r}]
         IN  ApplyEffects(next, Tail(effects))

\* A SmartHandle holds INVALID_HANDLE_VALUE, NULL or a handle (named by its
\* resource).
INVALID_HANDLE_VALUE == "INVALID_HANDLE_VALUE"
NULL == "NULL"

\* SmartHandle::IsValid.
IsValid(handle_) == handle_ # INVALID_HANDLE_VALUE /\ handle_ # NULL

\* SmartHandle::Reset(h): the effects of the call (handle_ becomes h).
SmartHandleReset(handle_, h) ==
    IF IsValid(handle_) THEN <<<<"release", handle_>>>> ELSE <<>>

\* A destructor that closes nothing.
SmartHandleLeak(handle_) == <<>>

\* A destructor that closes whatever handle_ holds.
SmartHandleCloseUnchecked(handle_) == <<<<"release", handle_>>>>

\* SmartHandle::~SmartHandle: the effects of the destructor.
SmartHandleDestroy(handle_) ==
    IF IsValid(handle_) THEN <<<<"release", handle_>>>> ELSE <<>>

\* SmartLocalMemory<T>: Allocate(count) reserves count elements of T,
\* the destructor frees the block if one was allocated.
SmartLocalMemoryBytes(count, elementSize) == count * elementSize
SmartLocalMemoryDestroy(allocated) ==
    IF allocated THEN <<<<"release", "groupsBuffer">>>> ELSE <<>>

-----------------------------------------------------------------------------
(* ImpersonationChain: ImpersonateTcbToken                                 *)

\* _wcsicmp(L"winlogon.exe", name) = 0 on the names the model enumerates.
LowerName(name) ==
    CASE name = "WINLOGON.EXE" -> "winlogon.exe"
      [] name = "WinLogon.exe" -> "winlogon.exe"
      [] name = "Explorer.EXE" -> "explorer.exe"
      [] OTHER -> name
IsWinlogon(name) == LowerName(name) = "winlogon.exe"

\* Process lists a snapshot may hold, in enumeration order.
ProcessLists ==
    { <<"System", "WinLogon.exe", "Explorer.EXE">>,
      <<"winlogon.exe">>,
      <<"System", "Explorer.EXE">>,
      <<"System", "Explorer.EXE", "WINLOGON.EXE", "winlogon.exe">> }

\* What the OS answers during one ImpersonateTcbToken call: whether the
\* snapshot is created, how Process32FirstW ends ("ok", "nomore" for
\* ERROR_NO_MORE_FILES, "error" for any other failure), the processes of the
\* snapshot, and whether OpenProcess, OpenProcessToken and
\* ImpersonateLoggedOnUser succeed.
ImpersonationOutcomes ==
    [snapshotOk : BOOLEAN, first : {"ok", "nomore", "error"}, procs : ProcessLists,
     openProcessOk : BOOLEAN, openTokenOk : BOOLEAN, impersonateOk : BOOLEAN]

\* A search that settles for the first process of the list, whatever its name.
FirstProcess(procs) == IF Len(procs) > 0 THEN 1 ELSE 0

\* Index of the first winlogon entry of a list, 0 when there is none.
FirstWinlogon(procs) ==
    LET hits == {i \in 1..Len(procs) : IsWinlogon(procs[i])}
    IN  IF hits = {} THEN 0 ELSE MinOf(hits)

\* n calls of Process32NextW.
NextCalls(n) == [i \in 1..n |-> <<"Process32NextW">>]

\* ImpersonateTcbToken() under outcome o: the returned bool, the OS calls
\* made (the guards' CloseHandle calls included, in destruction order
\* hToken, hProcess, hSnapshot), their effects on the resource table and
\* whether the thread now impersonates.
ImpersonateTcbToken(o) ==
    LET snap   == <<<<"CreateToolhelp32Snapshot">>>>
        first  == <<<<"Process32FirstW">>>>
        closeSnapshot == SmartHandleDestroy("snapshot")
        closeProcess  == SmartHandleDestroy("winlogonProcess")
        closeToken    == SmartHandleDestroy("winlogonToken")
        CloseCalls(effects) == [i \in 1..Len(effects) |-> <<"CloseHandle", effects[i][2]>>]
        k      == IF o.first = "ok" THEN FirstWinlogon(o.procs) ELSE 0
        walked == IF o.first = "ok"
                  THEN NextCalls(IF k > 0 THEN k - 1 ELSE Len(o.procs))
                  ELSE NextCalls(1)
        Result(ret, calls, acquired, closes, imp) ==
            [ret |-> ret, calls |-> calls \o CloseCalls(closes),
             effects |-> acquired \o closes, impersonated |-> imp]
    IN
    IF ~o.snapshotOk
    THEN Result(FALSE, snap, <<>>, SmartHandleDestroy(INVALID_HANDLE_VALUE), FALSE)
    ELSE IF o.first = "error"
    THEN Result(FALSE, snap \o first, <<<<"acquire", "snapshot">>>>, closeSnapshot, FALSE)
    ELSE IF k = 0
    THEN Result(FALSE, snap \o first \o walked, <<<<"acquire", "snapshot">>>>,
                closeSnapshot, FALSE)
    ELSE IF ~o.openProcessOk
    THEN Result(FALSE, snap \o first \o walked \o <<<<"OpenProcess">>>>,
                <<<<"acquire", "snapshot">>>>, closeSnapshot, FALSE)
    ELSE IF ~o.openTokenOk
    THEN Result(FALSE,
                snap \o first \o walked \o <<<<"OpenProcess">>, <<"OpenProcessToken">>>>,
                <<<<"acquire", "snapshot">>, <<"acquire", "winlogonProcess">>>>,
                closeProcess \o closeSnapshot, FALSE)
    ELSE Result(o.impersonateOk,
                snap \o first \o walked
                     \o <<<<"OpenProcess">>, <<"OpenProcessToken">>,
                          <<"ImpersonateLoggedOnUser", o.impersonateOk>>>>,
                <<<<"acquire", "snapshot">>, <<"acquire", "winlogonProcess">>,
                  <<"acquire", "winlogonToken">>>>,
                closeToken \o closeProcess \o closeSnapshot, o.impersonateOk)

\* The names the do-while loop of STEP 3 hands to _wcsicmp, in order.  The
\* loop body runs before any Process32NextW call, on whatever entry holds:
\* the first process when Process32FirstW succeeded, and the zero-filled
\* entry (an empty name) when it failed with ERROR_NO_MORE_FILES.
ComparedEntries(o) ==
    IF ~o.snapshotOk \/ o.first = "error" THEN <<>>
    ELSE IF o.first = "nomore" THEN <<"">>
    ELSE LET k == FirstWinlogon(o.procs)
         IN  SubSeq(o.procs, 1, IF k > 0 THEN k ELSE Len(o.procs))

-----------------------------------------------------------------------------
(* Sizes of the token group list                                           *)

\* sizeof(TOKEN_GROUPS) and sizeof(SID_AND_ATTRIBUTES) of a 64-bit build.
SizeofTokenGroups == 24
SizeofSidAndAttributes == 16
\* Offset of Groups[0] in TOKEN_GROUPS and the size of the smallest SID.
GroupsOffset == SizeofTokenGroups - SizeofSidAndAttributes
MinSidBytes == 8 + 4

\* The ceiling the size check applies.
MaxTokenGroupsSize == 65536

\* Largest number of groups of a token in the model.
MaxGroups == 2

\* Bytes GetTokenInformation(TokenGroups) needs for a token of n groups:
\* the count, n entries and the n SIDs they point to.
GroupListBytes(n) == GroupsOffset + n * (SizeofSidAndAttributes + MinSidBytes)

\* Sizes the size query may report for a token of n groups: the size its list
\* needs, or a malformed answer (zero, or above the ceiling).
SizeReports(n) == {GroupListBytes(n), 0, MaxTokenGroupsSize + 1}

\* The group list as fetched for a token of n groups.
FetchedGroups(n) == [i \in 1..n |-> [Sid |-> <<"group", i>>, Attributes |-> "ENABLED"]]

-----------------------------------------------------------------------------
(* Inputs of the front-ends                                                *)

\* Launch chains a GUI session may start (the Run button can be pressed
\* again); the CLI runs one chain per process.
MaxRuns == 2

\* Texts handed to the front-ends.
ChainPaths ==
    { <<>>,
      <<Blank, Blank>>,
      <<Blank, "a", ".", "e", "x", "e", Blank>>,                     \* " a.exe "
      <<"b", ".", "e", "x", "e">>,                                  \* b.exe (on PATH only)
      <<"C", ":", "/", "w", "w", "/", "/", "a", ".", "E", "X", "E">>, \* C:/ww//a.EXE
      <<".", ".", BS, "a", ".", "e", "x", "e">>,                     \* ..\a.exe
      <<"a", ".", "d", "l", "l">>,                                  \* a.dll
      <<"w", "w", "/", "e", ".", "e", "x", "e">>,                    \* ww/e.exe
      <<"a", "<", ".", "e", "x", "e">> }                            \* a<.exe

\* Priorities RunExecutableFromCommandLine may be called with: the six
\* classes and values that are none of them.
CliPriorities ==
    { PriorityClassOf(n) : n \in 1..6 } \cup {0, 3, 999}
    \cup {-999, -1, 1, 2, 4, 5, 6, 33, 65}

\* PriorityCombo->ItemIndex: -1 when nothing is selected.
GuiPriorityIndexes == -1..5

-----------------------------------------------------------------------------
(* The command line of _tWinMain                                           *)

INT_MAX == 2147483647
MaxPriorityDigits == 10

IsDigit(ch) == ch \in {"0", "1", "2", "3", "4", "5", "6", "7", "8", "9"}

DigitValue(ch) ==
    CASE ch = "0" -> 0 [] ch = "1" -> 1 [] ch = "2" -> 2 [] ch = "3" -> 3
      [] ch = "4" -> 4 [] ch = "5" -> 5 [] ch = "6" -> 6 [] ch = "7" -> 7
      [] ch = "8" -> 8 [] ch = "9" -> 9

\* AnsiString::SubString(index, count), 1-based, cut at the end of s.
SubString(s, index, count) ==
    SubSeq(s, index, MinOf({Len(s), index + count - 1}))

\* StrToInt on a text of decimal digits, the only texts that reach it: the
\* value, or EConvertError (raised) when it does not fit a 32-bit int or
\* the text is no number.
RECURSIVE StrToIntFrom(_, _)
StrToIntFrom(digits, acc) ==
    IF digits = <<>> THEN [raised |-> FALSE, value |-> acc]
    ELSE IF ~IsDigit(Head(digits)) THEN [raised |-> TRUE, value |-> 0]
    ELSE IF acc > INT_MAX \div 10
            \/ (acc = INT_MAX \div 10 /\ DigitValue(Head(digits)) > INT_MAX % 10)
    THEN [raised |-> TRUE, value |-> 0]
    ELSE StrToIntFrom(Tail(digits), acc * 10 + DigitValue(Head(digits)))

StrToInt(text) ==
    IF text = <<>> THEN [raised |-> TRUE, value |-> 0] ELSE StrToIntFrom(text, 0)

\* A format check that knows the empty text alone.
NonEmptyPriorityStr(priorityStr) == priorityStr # <<>>

\* isValidPriorityStr after the checks of the priority text.
IsValidPriorityStr(priorityStr) ==
    IF priorityStr = <<>> THEN FALSE
    ELSE IF Len(priorityStr) > MaxPriorityDigits THEN FALSE
    ELSE /\ \A j \in 1..Len(priorityStr) : IsDigit(priorityStr[j])
         /\ ~(Len(priorityStr) = 1 /\ priorityStr[1] = "0")

\* A number-to-class table whose first entry is the default class.
CliPriorityClassIdleAsNormal(prioValue) ==
    CASE prioValue = 1 -> NORMAL_PRIORITY_CLASS
      [] prioValue = 2 -> BELOW_NORMAL_PRIORITY_CLASS
      [] prioValue = 3 -> NORMAL_PRIORITY_CLASS
      [] prioValue = 4 -> ABOVE_NORMAL_PRIORITY_CLASS
      [] prioValue = 5 -> HIGH_PRIORITY_CLASS
      [] prioValue = 6 -> REALTIME_PRIORITY_CLASS
      [] OTHER -> NORMAL_PRIORITY_CLASS

\* The switch of _tWinMain on prioValue.
CliPriorityClass(prioValue) ==
    CASE prioValue = 1 -> IDLE_PRIORITY_CLASS
      [] prioValue = 2 -> BELOW_NORMAL_PRIORITY_CLASS
      [] prioValue = 3 -> NORMAL_PRIORITY_CLASS
      [] prioValue = 4 -> ABOVE_NORMAL_PRIORITY_CLASS
      [] prioValue = 5 -> HIGH_PRIORITY_CLASS
      [] prioValue = 6 -> REALTIME_PRIORITY_CLASS
      [] OTHER -> NORMAL_PRIORITY_CLASS

\* What one pass of the argument loop leaves: return 1, or the priority.
ExitOne == [exit |-> TRUE, priority |-> 0]
Parsed(prio) == [exit |-> FALSE, priority |-> prio]

\* The converted value against the safe range and the range 1..6, then the
\* switch.
AcceptNumber(converted) ==
    IF converted.raised THEN ExitOne
    ELSE IF converted.value < -(INT_MAX \div 2) \/ converted.value > INT_MAX \div 2
    THEN ExitOne
    ELSE IF converted.value < 1 \/ converted.value > 6 THEN ExitOne
    ELSE Parsed(CliPriorityClass(converted.value))

\* The text after the first colon: its format check, then its conversion.
ParsePriorityStr(priorityStr) ==
    IF ~IsValidPriorityStr(priorityStr) THEN ExitOne
    ELSE AcceptNumber(StrToInt(priorityStr))

SlashPriority == <<"/", "p", "r", "i", "o", "r", "i", "t", "y", ":">>
DashPriority == <<"-", "p", "r", "i", "o", "r", "i", "t", "y", ":">>

\* One argument after the path.
ParseParam(param) ==
    IF Pos(SlashPriority, param) = 1 \/ Pos(DashPriority, param) = 1
    THEN ParsePriorityStr(SubString(param, Pos(<<":">>, param) + 1, Len(param)))
    ELSE ExitOne

\* The argument loop from ParamStr(i) on, priority holding the value set so
\* far.
RECURSIVE ParseParams(_, _, _)
ParseParams(params, i, prio) ==
    IF i > Len(params) THEN Parsed(prio)
    ELSE IF ParseParam(params[i]).exit THEN ExitOne
    ELSE ParseParams(params, i + 1, ParseParam(params[i]).priority)

\* The CLI branch of _tWinMain up to the call of
\* RunExecutableFromCommandLine, params being ParamStr(1..ParamCount()).
ParseCommandLine(params) == ParseParams(params, 2, NORMAL_PRIORITY_CLASS)

\* Arguments that may follow the path.
PriorityNumbers ==
    { <<"1">>, <<"2">>, <<"3">>, <<"4">>, <<"5">>, <<"6">>,
      <<"0", "3">>,
      <<"0", "0", "0", "0", "0", "0", "0", "0", "0", "3">>,
      <<>>,
      <<"0">>,
      <<"7">>,
      <<"1", "0">>,
      <<"x">>,
      <<"3", "x">>,
      <<"-", "3">>,
      <<"3", ":", "4">>,
      <<Blank, "3">>,
      <<"0", "0", "0", "0", "0", "0", "0", "0", "0", "0", "3">>,
      <<"2", "1", "4", "7", "4", "8", "3", "6", "4", "8">>,
      <<"4", "2", "9", "4", "9", "6", "7", "2", "9", "9">>,
      <<"1", "0", "7", "3", "7", "4", "1", "8", "2", "4">>,
      <<"9", "9", "9", "9", "9", "9", "9", "9", "9", "9">> }

CliParams ==
    { SlashPriority \o n : n \in PriorityNumbers }
    \cup { DashPriority \o n : n \in {<<"5">>, <<"2">>, <<"0">>, <<>>, <<"x">>} }
    \cup { <<"/", "P", "R", "I", "O", "R", "I", "T", "Y", ":", "3">>,
           <<"p", "r", "i", "o", "r", "i", "t", "y", ":", "3">>,
           <<"/", "p", "r", "i", "o", ":", "3">>,
           <<Blank, "/", "p", "r", "i", "o", "r", "i", "t", "y", ":", "3">>,
           <<"3">>,
           <<>> }

\* Most arguments that follow the path in the model.
MaxParams == 2

\* In a list of several arguments one comes from the whole set and the
\* others from these.
ParamPartners ==
    { SlashPriority \o <<"6">>, DashPriority \o <<"2">>, SlashPriority \o <<"7">> }

CliArgumentLists ==
    UNION { { a \in [1..n -> CliParams] :
                n = 0 \/ \E k \in 1..n : \A j \in (1..n) \ {k} : a[j] \in ParamPartners }
            : n \in 0..MaxParams }

\* Values of ParamStr(1) in the model: a file of the current directory,
\* and the empty text.
CliPaths ==
    { <<Blank, "a", ".", "e", "x", "e", Blank>>, <<>> }

-----------------------------------------------------------------------------
(* State of one launch chain                                               *)

\* Locals of GetTrustedInstallerToken before its first statement.
InitialTokenLocals ==
    [ impersonating         |-> FALSE,
      trustedInstallerToken |-> NULL,
      trustedInstallerSid   |-> NULL,
      currentToken          |-> NULL,
      currentTokenHandle    |-> INVALID_HANDLE_VALUE,
      groupCount            |-> 0,      \* groups of the token that was opened
      tokenGroupsSize       |-> 0,
      allocated             |-> FALSE,  \* tokenGroupsMemory holds a block
      allocatedBytes        |-> 0,
      tokenGroups           |-> <<>>,   \* the list in the block
      exchanged             |-> <<>> ]  \* the list handed to LogonUserExExW

\* Locals of CreateProcessWithTIToken and what its caller receives.
InitialLaunchLocals ==
    [ wPath   |-> <<>>,       \* the front-end's wide string
      tiToken |-> NULL,
      created |-> FALSE,      \* CreateProcessWithTokenW made a process
      ret     |-> "none" ]    \* TRUE / FALSE once the front-end has its answer

NoValidation == [ret |-> FALSE, stage |-> "none", validatedPath |-> <<>>, calls |-> <<>>]
NoProbe == [fn |-> "none"]

\* Everything but the front-end in its initial state.
ChainIdle ==
    /\ pc = "idle"
    /\ runs = 0
    /\ rawPath = <<>>
    /\ path = <<>>
    /\ priority = 0
    /\ threadImpersonating = FALSE
    /\ gt = InitialTokenLocals
    /\ cp = InitialLaunchLocals
    /\ res = NoResources
    /\ badRelease = {}
    /\ log = <<>>
    /\ validation = NoValidation

\* After construction: the CLI process has resolved nothing yet; the GUI
\* form's constructor has run ResolveDynamicFunctions, each GetProcAddress
\* having succeeded or not.
Init ==
    /\ ChainIdle
    /\ probe = NoProbe
    /\ frontend \in {"CLI", "GUI"}
    /\ pRtlAdjustPrivilege \in (IF frontend = "GUI" THEN BOOLEAN ELSE {FALSE})
    /\ pLogonUserExExW \in (IF frontend = "GUI" THEN BOOLEAN ELSE {FALSE})

\* The front-end has its answer: it reports and returns.
Finish(ret) ==
    /\ pc' = "done"
    /\ cp' = [cp EXCEPT !.ret = ret]

\* A fresh run: locals, resource table and log start anew.
StartRun(exePath, prio) ==
    /\ runs' = runs + 1
    /\ rawPath' = exePath
    /\ path' = <<>>
    /\ priority' = prio
    /\ gt' = InitialTokenLocals
    /\ cp' = InitialLaunchLocals
    /\ res' = NoResources
    /\ badRelease' = {}
    /\ log' = <<>>
    /\ validation' = NoValidation
    /\ pc' = "fe_trim"

Logged(calls) == log' = log \o calls

Affect(effects) ==
    LET st == ApplyEffects([table |-> res, bad |-> badRelease], effects)
    IN  res' = st.table /\ badRelease' = st.bad

-----------------------------------------------------------------------------
(* The front-ends                                                          *)

\* RunExecutableFromCommandLine(exePath, priority) is entered: it resolves
\* the two bindings first (each GetProcAddress succeeds or not).
CliRun ==
    /\ frontend = "CLI"
    /\ pc = "idle"
    /\ \E exePath \in ChainPaths, prio \in CliPriorities : StartRun(exePath, prio)
    /\ pRtlAdjustPrivilege' \in BOOLEAN
    /\ pLogonUserExExW' \in BOOLEAN
    /\ UNCHANGED <<frontend, threadImpersonating, probe>>

\* _tWinMain with ParamCount() > 0: the argument loop returns 1, or
\* RunExecutableFromCommandLine(exePath, priority) is entered.  probe keeps
\* the command line, whether the loop returned, and the value it returned
\* (0 while no return statement was executed).
WinMainCli ==
    /\ frontend = "CLI"
    /\ pc = "idle"
    /\ \E exePath \in CliPaths, args \in CliArgumentLists :
         IF ParseCommandLine(<<exePath>> \o args).exit
         THEN /\ pc' = "exited"
              /\ probe' = [fn |-> "_tWinMain", exePath |-> exePath, args |-> args,
                           returnedEarly |-> TRUE, exitCode |-> 1]
              /\ UNCHANGED <<runs, rawPath, path, priority, pRtlAdjustPrivilege,
                             pLogonUserExExW, gt, cp, res, badRelease, log, validation>>
         ELSE /\ StartRun(exePath, ParseCommandLine(<<exePath>> \o args).priority)
              /\ probe' = [fn |-> "_tWinMain", exePath |-> exePath, args |-> args,
                           returnedEarly |-> FALSE, exitCode |-> 0]
              /\ pRtlAdjustPrivilege' \in BOOLEAN
              /\ pLogonUserExExW' \in BOOLEAN
    /\ UNCHANGED <<frontend, threadImpersonating>>

\* TMain::RunButtonClick is entered with the text of PathEdit; the priority
\* class is derived from the combo box index further down, before it is
\* validated.
GuiRunButtonClick ==
    /\ frontend = "GUI"
    /\ pc \in {"idle", "done", "raised"}
    /\ runs < MaxRuns
    /\ \E exePath \in ChainPaths, priorityIndex \in GuiPriorityIndexes :
          StartRun(exePath,
                   PriorityClassOf((IF priorityIndex < 0 THEN 2 ELSE priorityIndex) + 1))
    /\ UNCHANGED <<frontend, pRtlAdjustPrivilege, pLogonUserExExW, threadImpersonating,
                   probe>>

\* path = exePath.Trim(); an empty path ends the run.
FrontTrim ==
    /\ pc = "fe_trim"
    /\ path' = Trim(rawPath)
    /\ IF path' = <<>>
       THEN Finish(FALSE)
       ELSE pc' = "fe_sanitize" /\ cp' = cp
    /\ UNCHANGED <<runs, frontend, rawPath, priority, pRtlAdjustPrivilege, pLogonUserExExW,
                   threadImpersonating, gt, res, badRelease, log, validation, probe>>

\* SanitizePath(path).
FrontSanitize ==
    /\ pc = "fe_sanitize"
    /\ \E cwdOk \in BOOLEAN :
         LET r == SanitizePath(path, cwdOk)
         IN  /\ path' = r.path
             /\ Logged(<<<<"SanitizePath", r.ret>>>>)
             /\ IF r.ret THEN pc' = "fe_validate" /\ cp' = cp ELSE Finish(FALSE)
    /\ UNCHANGED <<runs, frontend, rawPath, priority, pRtlAdjustPrivilege, pLogonUserExExW,
                   threadImpersonating, gt, res, badRelease, validation, probe>>

\* ValidateExecutablePath(path): path is passed by const reference, the
\* front-end keeps its own string.
FrontValidate ==
    /\ pc = "fe_validate"
    /\ \E env \in ValidatorEnvs :
         LET v == ValidateExecutablePath(path, env)
         IN  /\ validation' = v
             /\ Logged([i \in 1..Len(v.calls) |-> <<v.calls[i]>>]
                       \o (IF v.stage = "raised"
                           THEN <<<<"raise", "ERangeError">>>>
                           ELSE <<<<"ValidateExecutablePath", v.ret>>>>))
             /\ IF v.stage = "raised" THEN pc' = "raised" /\ cp' = cp
                ELSE IF v.ret THEN pc' = "fe_priority" /\ cp' = cp
                ELSE Finish(FALSE)
    /\ UNCHANGED <<runs, frontend, rawPath, path, priority, pRtlAdjustPrivilege,
                   pLogonUserExExW, threadImpersonating, gt, res, badRelease, probe>>

\* ValidatePriorityValue(priority).
FrontPriority ==
    /\ pc = "fe_priority"
    /\ Logged(<<<<"ValidatePriorityValue", priority, ValidatePriorityValue(priority)>>>>)
    /\ IF ValidatePriorityValue(priority)
       THEN pc' = "fe_convert" /\ cp' = cp
       ELSE Finish(FALSE)
    /\ UNCHANGED <<runs, frontend, rawPath, path, priority, pRtlAdjustPrivilege,
                   pLogonUserExExW, threadImpersonating, gt, res, badRelease,
                   validation, probe>>

\* The two MultiByteToWideChar calls: the length query (0 on failure, the
\* length with the terminator otherwise), then the conversion.
FrontConvert ==
    /\ pc = "fe_convert"
    /\ \E queryOk \in BOOLEAN, convertOk \in BOOLEAN :
         LET wPathLen == IF queryOk THEN Len(path) + 1 ELSE 0
         IN  IF wPathLen = 0 \/ wPathLen > MAX_PATH
             THEN Finish(FALSE) /\ Logged(<<<<"MultiByteToWideChar">>>>)
             ELSE IF ~convertOk
             THEN Finish(FALSE)
                  /\ Logged(<<<<"MultiByteToWideChar">>, <<"MultiByteToWideChar">>>>)
             ELSE /\ cp' = [cp EXCEPT !.wPath = MultiByteToWideChar(path)]
                  /\ pc' = "cpw_enable"
                  /\ Logged(<<<<"MultiByteToWideChar">>, <<"MultiByteToWideChar">>>>)
    /\ UNCHANGED <<runs, frontend, rawPath, path, priority, pRtlAdjustPrivilege,
                   pLogonUserExExW, threadImpersonating, gt, res, badRelease,
                   validation, probe>>

-----------------------------------------------------------------------------
(* ProcessLauncher, first half: CreateProcessWithTIToken up to the token   *)

FrontEndVars == <<runs, frontend, rawPath, path, priority, pRtlAdjustPrivilege,
                  pLogonUserExExW, validation, probe>>

\* STEP 1 without the early return: the result of EnablePrivilege is ignored.
LaunchEnableImpersonateUnchecked ==
    /\ pc = "cpw_enable"
    /\ \E status \in NtStatuses :
         LET r == EnablePrivilege(FALSE, SeImpersonatePrivilege, status)
         IN  /\ Logged(<<<<"CreateProcessWithTIToken">>>>
                       \o EnablePrivilegeLog(FALSE, SeImpersonatePrivilege, r))
             /\ pc' = "gt_tcb"
             /\ cp' = cp
    /\ UNCHANGED <<FrontEndVars, threadImpersonating, gt, res, badRelease>>

\* STEP 1: EnablePrivilege(false, SeImpersonatePrivilege); on failure the
\* function returns false to the front-end.
LaunchEnableImpersonate ==
    /\ pc = "cpw_enable"
    /\ \E status \in NtStatuses :
         LET r == EnablePrivilege(FALSE, SeImpersonatePrivilege, status)
         IN  /\ Logged(<<<<"CreateProcessWithTIToken">>>>
                       \o EnablePrivilegeLog(FALSE, SeImpersonatePrivilege, r))
             /\ IF r.ret THEN pc' = "gt_tcb" /\ cp' = cp ELSE Finish(FALSE)
    /\ UNCHANGED <<FrontEndVars, threadImpersonating, gt, res, badRelease>>

-----------------------------------------------------------------------------
(* TokenComposer: GetTrustedInstallerToken                                 *)

\* A fallback step that goes on whatever the result.
FallbackStepUnchecked(ret, next) == next

\* A step of the privilege fallback: `break` to the cleanup when it failed,
\* on to the next statement otherwise.
FallbackStep(ret, next) == IF ret THEN next ELSE "gt_cleanup"

\* STEP 1: EnablePrivilege(false, SeTcbPrivilege).
TokenEnableTcb ==
    /\ pc = "gt_tcb"
    /\ \E status \in NtStatuses :
         LET r == EnablePrivilege(FALSE, SeTcbPrivilege, status)
         IN  /\ Logged(<<<<"GetTrustedInstallerToken">>>>
                       \o EnablePrivilegeLog(FALSE, SeTcbPrivilege, r))
             /\ pc' = IF r.ret THEN "gt_sid" ELSE "gt_debug"
    /\ UNCHANGED <<FrontEndVars, threadImpersonating, gt, cp, res, badRelease>>

\* The fallback: EnablePrivilege(false, SeDebugPrivilege), break on failure.
TokenEnableDebug ==
    /\ pc = "gt_debug"
    /\ \E status \in NtStatuses :
         LET r == EnablePrivilege(FALSE, SeDebugPrivilege, status)
         IN  /\ Logged(EnablePrivilegeLog(FALSE, SeDebugPrivilege, r))
             /\ pc' = FallbackStep(r.ret, "gt_impersonate")
    /\ UNCHANGED <<FrontEndVars, threadImpersonating, gt, cp, res, badRelease>>

\* impersonating = ImpersonateTcbToken(); break when it is false.
TokenImpersonate ==
    /\ pc = "gt_impersonate"
    /\ \E o \in ImpersonationOutcomes :
         LET r == ImpersonateTcbToken(o)
         IN  /\ Logged(<<<<"ImpersonateTcbToken">>>> \o r.calls
                       \o <<<<"return ImpersonateTcbToken", r.ret>>>>)
             /\ Affect(r.effects)
             /\ threadImpersonating' = (threadImpersonating \/ r.impersonated)
             /\ gt' = [gt EXCEPT !.impersonating = r.ret]
             /\ pc' = FallbackStep(r.ret, "gt_tcb_thread")
    /\ UNCHANGED <<FrontEndVars, cp>>

\* EnablePrivilege(impersonating, SeTcbPrivilege) under impersonation.
TokenEnableTcbOnThread ==
    /\ pc = "gt_tcb_thread"
    /\ \E status \in NtStatuses :
         LET r == EnablePrivilege(gt.impersonating, SeTcbPrivilege, status)
         IN  /\ Logged(EnablePrivilegeLog(gt.impersonating, SeTcbPrivilege, r))
             /\ pc' = FallbackStep(r.ret, "gt_sid")
    /\ UNCHANGED <<FrontEndVars, threadImpersonating, gt, cp, res, badRelease>>

\* STEP 2: ConvertStringSidToSidA allocates the binary SID.
TokenConvertSid ==
    /\ pc = "gt_sid"
    /\ \E ok \in BOOLEAN :
         /\ Logged(<<<<"ConvertStringSidToSidA", ok>>>>)
         /\ IF ok
            THEN /\ gt' = [gt EXCEPT !.trustedInstallerSid = "sid"]
                 /\ Affect(<<<<"acquire", "sid">>>>)
                 /\ pc' = "gt_open"
            ELSE /\ UNCHANGED <<gt, res, badRelease>>
                 /\ pc' = "gt_cleanup"
    /\ UNCHANGED <<FrontEndVars, threadImpersonating, cp>>

\* A STEP 3 that opens the process token whether impersonating or not.
TokenOpenProcessAlways ==
    /\ pc = "gt_open"
    /\ \E ok \in BOOLEAN, n \in 0..MaxGroups :
         /\ Logged(<<<<"OpenProcessToken", ok>>>>)
         /\ IF ok
            THEN /\ Affect(<<<<"acquire", "processToken">>>>
                           \o SmartHandleReset(gt.currentTokenHandle, "processToken"))
                 /\ gt' = [gt EXCEPT !.currentTokenHandle = "processToken",
                                     !.currentToken = "processToken",
                                     !.groupCount = n]
                 /\ pc' = "gt_size"
            ELSE /\ UNCHANGED <<gt, res, badRelease>>
                 /\ pc' = "gt_cleanup"
    /\ UNCHANGED <<FrontEndVars, threadImpersonating, cp>>

\* STEP 3: OpenThreadToken when impersonating, OpenProcessToken otherwise;
\* the handle goes to the guard and is kept raw in currentToken.  The token
\* opened has some number of groups.
TokenOpenCurrent ==
    /\ pc = "gt_open"
    /\ \E ok \in BOOLEAN, n \in 0..MaxGroups :
         LET h    == IF gt.impersonating THEN "threadToken" ELSE "processToken"
             call == IF gt.impersonating THEN "OpenThreadToken" ELSE "OpenProcessToken"
         IN  /\ Logged(<<<<call, ok>>>>)
             /\ IF ok
                THEN /\ Affect(<<<<"acquire", h>>>> \o SmartHandleReset(gt.currentTokenHandle, h))
                     /\ gt' = [gt EXCEPT !.currentTokenHandle = h, !.currentToken = h,
                                         !.groupCount = n]
                     /\ pc' = "gt_size"
                ELSE /\ UNCHANGED <<gt, res, badRelease>>
                     /\ pc' = "gt_cleanup"
    /\ UNCHANGED <<FrontEndVars, threadImpersonating, cp>>

\* A size query after which the bounds check lets every reported size pass.
TokenQuerySizeUnchecked ==
    /\ pc = "gt_size"
    /\ \E answer \in {"insufficient", "otherError", "success"} :
       \E reported \in (IF answer = "otherError" THEN {0} ELSE SizeReports(gt.groupCount)) :
         /\ Logged(<<<<"GetTokenInformation", 0, answer>>>>)
         /\ gt' = [gt EXCEPT !.tokenGroupsSize = reported]
         /\ pc' = IF answer = "otherError" THEN "gt_cleanup" ELSE "gt_alloc"
    /\ UNCHANGED <<FrontEndVars, threadImpersonating, cp, res, badRelease>>

\* STEP 4: the size query.  It fails with ERROR_INSUFFICIENT_BUFFER and
\* reports a size, or fails with another error (the size stays 0), or
\* succeeds; then the bounds check.
TokenQuerySize ==
    /\ pc = "gt_size"
    /\ \E answer \in {"insufficient", "otherError", "success"} :
       \E reported \in (IF answer = "otherError" THEN {0} ELSE SizeReports(gt.groupCount)) :
         /\ Logged(<<<<"GetTokenInformation", 0, answer>>>>)
         /\ gt' = [gt EXCEPT !.tokenGroupsSize = reported]
         /\ pc' = IF answer = "otherError" THEN "gt_cleanup"
                  ELSE IF reported = 0 \/ reported < SizeofTokenGroups
                          \/ reported > MaxTokenGroupsSize
                  THEN "gt_cleanup"
                  ELSE "gt_alloc"
    /\ UNCHANGED <<FrontEndVars, threadImpersonating, cp, res, badRelease>>

\* tokenGroupsMemory.Allocate(1).
TokenAllocate ==
    /\ pc = "gt_alloc"
    /\ \E ok \in BOOLEAN :
         /\ Logged(<<<<"LocalAlloc", SmartLocalMemoryBytes(1, SizeofTokenGroups), ok>>>>)
         /\ IF ok
            THEN /\ gt' = [gt EXCEPT !.allocated = TRUE,
                                     !.allocatedBytes =
                                         SmartLocalMemoryBytes(1, SizeofTokenGroups)]
                 /\ Affect(<<<<"acquire", "groupsBuffer">>>>)
                 /\ pc' = "gt_fetch"
            ELSE /\ UNCHANGED <<gt, res, badRelease>>
                 /\ pc' = "gt_cleanup"
    /\ UNCHANGED <<FrontEndVars, threadImpersonating, cp>>


\* lastGroupIndex = tokenGroups->GroupCount - 1 in unsigned 32-bit
\* arithmetic: 0 - 1 wraps to 0xFFFFFFFF, which is kept apart as `wrapped`
\* (value then counts down from 2^32).
LastGroupIndex(groupCount) ==
    IF groupCount >= 1
    THEN [wrapped |-> FALSE, value |-> groupCount - 1]
    ELSE [wrapped |-> TRUE, value |-> 1 - groupCount]

\* STEP 6: Groups[lastGroupIndex] becomes the TrustedInstaller SID with
\* OWNER|ENABLED (the list is 1-based here, the index 0-based).
ComposeGroups(groups, groupCount, sid) ==
    LET idx == LastGroupIndex(groupCount)
    IN  IF ~idx.wrapped /\ idx.value + 1 \in DOMAIN groups
        THEN [groups EXCEPT ![idx.value + 1] =
                  [Sid |-> sid, Attributes |-> "OWNER|ENABLED"]]
        ELSE groups

\* The fetch wrote past the block, or the entry written lies outside it.
WritesOutsideBlock(groupCount, allocatedBytes) ==
    \/ GroupListBytes(groupCount) > allocatedBytes
    \/ LastGroupIndex(groupCount).wrapped
    \/ GroupsOffset + (LastGroupIndex(groupCount).value + 1) * SizeofSidAndAttributes
          > allocatedBytes

\* Entry i of the list (1-based) ends beyond a block of allocatedBytes.
EntryOutsideBlock(i, allocatedBytes) ==
    GroupsOffset + i * SizeofSidAndAttributes > allocatedBytes

\* The list as read back when the memory beyond the block has been reused:
\* the entries stored there hold whatever was written over them.
Clobbered(groups, allocatedBytes) ==
    [i \in DOMAIN groups |->
        IF EntryOutsideBlock(i, allocatedBytes)
        THEN [Sid |-> "indeterminate", Attributes |-> "indeterminate"]
        ELSE groups[i]]

\* What a write outside the block can lead to: execution goes on with the
\* list as written, or with the part beyond the block overwritten, or the
\* process dies.
FetchOutcomes(groupCount, allocatedBytes) ==
    IF WritesOutsideBlock(groupCount, allocatedBytes)
    THEN {"intact", "clobbered", "crashed"}
    ELSE {"intact"}

\* STEP 5 and 6: the fetch into the block with the size the query reported,
\* then the composition.  A write outside the block is undefined behaviour.
TokenFetchAndCompose ==
    /\ pc = "gt_fetch"
    /\ \E ok \in BOOLEAN :
         LET fits == gt.tokenGroupsSize >= GroupListBytes(gt.groupCount)
         IN  IF ~(ok /\ fits)
             THEN /\ Logged(<<<<"GetTokenInformation", gt.tokenGroupsSize, "failed">>>>)
                  /\ pc' = "gt_cleanup"
                  /\ gt' = gt
             ELSE /\ Logged(<<<<"GetTokenInformation", gt.tokenGroupsSize, "success">>>>)
                  /\ \E outcome \in FetchOutcomes(gt.groupCount, gt.allocatedBytes) :
                       /\ gt' = [gt EXCEPT !.tokenGroups =
                                     IF outcome = "clobbered"
                                     THEN Clobbered(
                                              ComposeGroups(FetchedGroups(gt.groupCount),
                                                            gt.groupCount,
                                                            gt.trustedInstallerSid),
                                              gt.allocatedBytes)
                                     ELSE ComposeGroups(FetchedGroups(gt.groupCount),
                                                        gt.groupCount,
                                                        gt.trustedInstallerSid)]
                       /\ pc' = IF outcome = "crashed" THEN "crashed" ELSE "gt_logon"
    /\ UNCHANGED <<FrontEndVars, threadImpersonating, cp, res, badRelease>>

\* STEP 7: the binding check, then the logon exchange; a failed exchange
\* leaves the output handle NULL.
\* A STEP 7 that calls through the binding without looking at it.
TokenLogonUnchecked ==
    /\ pc = "gt_logon"
    /\ \E ok \in BOOLEAN :
         /\ Logged(<<<<"LogonUserExExW", ok>>>>)
         /\ gt' = [gt EXCEPT !.exchanged = gt.tokenGroups,
                             !.trustedInstallerToken =
                                 IF ok THEN "tiToken" ELSE gt.trustedInstallerToken]
         /\ Affect(IF ok THEN <<<<"acquire", "tiToken">>>> ELSE <<>>)
         /\ pc' = "gt_cleanup"
    /\ UNCHANGED <<FrontEndVars, threadImpersonating, cp>>

TokenLogon ==
    /\ pc = "gt_logon"
    /\ IF ~pLogonUserExExW
       THEN /\ pc' = "gt_cleanup"
            /\ UNCHANGED <<gt, res, badRelease, log>>
       ELSE \E ok \in BOOLEAN :
              /\ Logged(<<<<"LogonUserExExW", ok>>>>)
              /\ gt' = [gt EXCEPT !.exchanged = gt.tokenGroups,
                                  !.trustedInstallerToken =
                                      IF ok THEN "tiToken" ELSE gt.trustedInstallerToken]
              /\ Affect(IF ok THEN <<<<"acquire", "tiToken">>>> ELSE <<>>)
              /\ pc' = "gt_cleanup"
    /\ UNCHANGED <<FrontEndVars, threadImpersonating, cp>>

\* The calls and effects after the do-while: RevertToSelf when impersonating,
\* FreeSid when the SID is set, then the guards' destructors in reverse order
\* of declaration (currentTokenHandle, tokenGroupsMemory).
TokenCleanupEffects(locals) ==
    (IF locals.trustedInstallerSid # NULL
     THEN <<<<"release", locals.trustedInstallerSid>>>> ELSE <<>>)
    \o SmartHandleDestroy(locals.currentTokenHandle)
    \o SmartLocalMemoryDestroy(locals.allocated)

TokenCleanupCalls(locals) ==
    (IF locals.impersonating THEN <<<<"RevertToSelf">>>> ELSE <<>>)
    \o (IF locals.trustedInstallerSid # NULL THEN <<<<"FreeSid">>>> ELSE <<>>)
    \o [i \in 1..Len(SmartHandleDestroy(locals.currentTokenHandle)) |->
            <<"CloseHandle", locals.currentTokenHandle>>]
    \o [i \in 1..Len(SmartLocalMemoryDestroy(locals.allocated)) |-> <<"LocalFree">>]

\* A cleanup without RevertToSelf.
ThreadLeftAsIs(locals, impersonatingNow) == impersonatingNow

\* The thread's impersonation after the cleanup.
RevertedThread(locals, impersonatingNow) ==
    IF locals.impersonating THEN FALSE ELSE impersonatingNow

\* Cleanup and return of GetTrustedInstallerToken: the caller receives
\* trustedInstallerToken.
TokenCleanupAndReturn ==
    /\ pc = "gt_cleanup"
    /\ Logged(TokenCleanupCalls(gt)
              \o <<<<"return GetTrustedInstallerToken", gt.trustedInstallerToken>>>>)
    /\ Affect(TokenCleanupEffects(gt))
    /\ threadImpersonating' = RevertedThread(gt, threadImpersonating)
    /\ cp' = [cp EXCEPT !.tiToken = gt.trustedInstallerToken]
    /\ pc' = "cpw_token"
    /\ UNCHANGED <<FrontEndVars, gt>>

-----------------------------------------------------------------------------
(* ProcessLauncher, second half                                            *)

CREATE_NEW_CONSOLE == 16

\* priority | CREATE_NEW_CONSOLE: no priority class has bit 0x10 set.
CreationFlags(prio) == prio + CREATE_NEW_CONSOLE

\* STEP 2: a NULL token makes CreateProcessWithTIToken return false.
LaunchCheckToken ==
    /\ pc = "cpw_token"
    /\ IF cp.tiToken = NULL THEN Finish(FALSE) ELSE pc' = "cpw_create" /\ cp' = cp
    /\ UNCHANGED <<FrontEndVars, threadImpersonating, gt, res, badRelease, log>>

\* A cleanup that closes the token with the new process's handles only.
LaunchCloseOnSuccessOnly(success, tiToken) ==
    IF success
    THEN <<<<"release", "newProcess">>, <<"release", "newThread">>, <<"release", tiToken>>>>
    ELSE <<>>

\* The handles CreateProcessWithTIToken closes after the creation call.
LaunchCloseEffects(success, tiToken) ==
    (IF success
     THEN <<<<"release", "newProcess">>, <<"release", "newThread">>>> ELSE <<>>)
    \o <<<<"release", tiToken>>>>

\* STEP 5 and 6: CreateProcessWithTokenW on the front-end's string, then
\* the handles are closed and the result returned.
\* A STEP 5 whose caller is told true whatever CreateProcessWithTokenW said.
LaunchCreateProcessAlwaysTrue ==
    /\ pc = "cpw_create"
    /\ \E success \in BOOLEAN :
         /\ Logged(<<<<"CreateProcessWithTokenW", cp.tiToken, cp.wPath,
                       CreationFlags(priority), success>>>>)
         /\ Affect((IF success
                    THEN <<<<"acquire", "newProcess">>, <<"acquire", "newThread">>>>
                    ELSE <<>>)
                   \o LaunchCloseEffects(success, cp.tiToken))
         /\ pc' = "done"
         /\ cp' = [cp EXCEPT !.ret = TRUE, !.created = success]
    /\ UNCHANGED <<FrontEndVars, threadImpersonating, gt>>

LaunchCreateProcess ==
    /\ pc = "cpw_create"
    /\ \E success \in BOOLEAN :
         /\ Logged(<<<<"CreateProcessWithTokenW", cp.tiToken, cp.wPath,
                       CreationFlags(priority), success>>>>)
         /\ Affect((IF success
                    THEN <<<<"acquire", "newProcess">>, <<"acquire", "newThread">>>>
                    ELSE <<>>)
                   \o LaunchCloseEffects(success, cp.tiToken))
         /\ pc' = "done"
         /\ cp' = [cp EXCEPT !.ret = success, !.created = success]
    /\ UNCHANGED <<FrontEndVars, threadImpersonating, gt>>

-----------------------------------------------------------------------------
(* The launch chain                                                        *)

Next ==
    \/ WinMainCli
    \/ CliRun
    \/ GuiRunButtonClick
    \/ FrontTrim
    \/ FrontSanitize
    \/ FrontValidate
    \/ FrontPriority
    \/ FrontConvert
    \/ LaunchEnableImpersonate
    \/ TokenEnableTcb
    \/ TokenEnableDebug
    \/ TokenImpersonate
    \/ TokenEnableTcbOnThread
    \/ TokenConvertSid
    \/ TokenOpenCurrent
    \/ TokenQuerySize
    \/ TokenAllocate
    \/ TokenFetchAndCompose
    \/ TokenLogon
    \/ TokenCleanupAndReturn
    \/ LaunchCheckToken
    \/ LaunchCreateProcess

Spec == Init /\ [][Next]_vars

-----------------------------------------------------------------------------
(* EnablePrivilege called directly, as the test-suite does                 *)

\* The bindings are resolved or NULL; nothing else has happened.
InitPriv ==
    /\ ChainIdle
    /\ probe = NoProbe
    /\ frontend = "Test"
    /\ pRtlAdjustPrivilege \in BOOLEAN
    /\ pLogonUserExExW \in BOOLEAN

\* One call EnablePrivilege(impersonating, privilege_value) of a test run;
\* the primitive, if reached, answers status.
TestEnablePrivilege ==
    /\ probe = NoProbe
    /\ \E impersonating \in BOOLEAN,
          privilege_value \in (0..MaxPrivilegeValue) \cup {InvalidPrivilegeProbe},
          status \in NtStatuses :
         LET r == EnablePrivilege(impersonating, privilege_value, status)
         IN  probe' = [fn |-> "EnablePrivilege", impersonating |-> impersonating,
                       privilege_value |-> privilege_value, status |-> status,
                       binding |-> pRtlAdjustPrivilege, ret |-> r.ret, calls |-> r.calls]
    /\ UNCHANGED <<pc, runs, frontend, rawPath, path, priority, pRtlAdjustPrivilege,
                   pLogonUserExExW, threadImpersonating, gt, cp, res, badRelease, log,
                   validation>>

NextPriv == TestEnablePrivilege

SpecPriv == InitPriv /\ [][NextPriv]_vars

-----------------------------------------------------------------------------
(* The path validator called directly                                      *)

\* Texts are built from at most MaxPieces pieces.
MaxPieces == 3

PathPieces ==
    { <<".", ".">>, <<BS>>, <<"/">>, <<"C", ":">>, <<"w", "w">>,
      <<"a", ".", "e", "x", "e">>,
      <<"<">>, <<">">>, <<"\"">>, <<"|">>, <<"?">>, <<"*">> }

RECURSIVE Flatten(_)
Flatten(pieces) ==
    IF pieces = <<>> THEN <<>> ELSE Head(pieces) \o Flatten(Tail(pieces))

\* A text starting with two separators names a network share or a device,
\* which the modelled file system does not have.
IsShareOrDevice(p) == Len(p) >= 2 /\ p[1] \in {BS, "/"} /\ p[2] \in {BS, "/"}

\* AnsiString::StringOfChar(c, n).
StringOfChar(c, n) == [i \in 1..n |-> c]

\* The empty text and texts around the length limit: MAX_PATH + 1 letters,
\* as many characters starting with "..\", MAX_PATH letters, and an
\* absolute path of MAX_PATH characters.
BoundaryInputs ==
    { <<>>,
      StringOfChar("A", MAX_PATH + 1),
      <<".", ".", BS>> \o StringOfChar("A", MAX_PATH - 2),
      StringOfChar("A", MAX_PATH),
      <<"C", ":", BS>> \o StringOfChar("A", MAX_PATH - 3) }

\* Names of files of the modelled file system: libraries next to the
\* executables (in the current directory, on the search path) and
\* upper-case spellings.
FileInputs ==
    { <<"a", ".", "d", "l", "l">>,
      <<"C", ":", BS, "w", "w", BS, "a", ".", "D", "L", "L">>,
      <<"b", ".", "d", "l", "l">>,
      <<"b", ".", "e", "x", "e">>,
      <<"A", ".", "E", "X", "E">>,
      <<"e", ".", "e", "x", "e">>,
      <<"l", ".", "e", "x", "e">>,
      <<"g", ".", "e", "x", "e">> }

\* Absolute paths of directories and of names one and two characters long.
DirectoryInputs ==
    { <<"C", ":", BS>>,
      <<"C", ":", BS, "w", "w", BS>>,
      <<"C", ":", BS, "a">>,
      <<"C", ":", BS, "w", "w", BS, "a">>,
      <<"C", ":", BS, "w", "w", BS, "a", "b">>,
      <<"d", ":", BS, "p", BS, "q", BS, "r">> }

PathInputs ==
    { p \in { Flatten(t) : t \in UNION { [1..n -> PathPieces] : n \in 1..MaxPieces } } :
        ~IsShareOrDevice(p) }
    \cup BoundaryInputs
    \cup FileInputs
    \cup DirectoryInputs

InitPath ==
    /\ ChainIdle
    /\ probe = NoProbe
    /\ frontend = "Test"
    /\ pRtlAdjustPrivilege = FALSE
    /\ pLogonUserExExW = FALSE

ProbeOnly == <<pc, runs, frontend, rawPath, path, priority, pRtlAdjustPrivilege,
               pLogonUserExExW, threadImpersonating, gt, cp, res, badRelease, log,
               validation>>

\* IsPathTraversalSafe(p).
TestIsPathTraversalSafe ==
    /\ probe = NoProbe
    /\ \E p \in PathInputs :
         probe' = [fn |-> "IsPathTraversalSafe", input |-> p,
                   ret |-> IsPathTraversalSafe(p)]
    /\ UNCHANGED ProbeOnly

\* GetCanonicalPath(p), and GetCanonicalPath of its result when that is not
\* empty.
TestGetCanonicalPath ==
    /\ probe = NoProbe
    /\ \E p \in PathInputs, answer \in FullPathAnswers :
         LET canonicalPath == GetCanonicalPathOn(p, answer)
         IN  probe' = [fn |-> "GetCanonicalPath", input |-> p, answer |-> answer,
                       fullPathOk |-> (answer = "resolved"),
                       ret |-> canonicalPath,
                       again |-> GetCanonicalPath(canonicalPath, TRUE)]
    /\ UNCHANGED ProbeOnly

\* ValidateExecutablePath(p) in some environment.
TestValidateExecutablePath ==
    /\ probe = NoProbe
    /\ \E p \in PathInputs, env \in ValidatorEnvs :
         probe' = [fn |-> "ValidateExecutablePath", input |-> p, env |-> env,
                   result |-> ValidateExecutablePath(p, env)]
    /\ UNCHANGED ProbeOnly

\* ValidateExecutablePath from VALIDATION 3 on, GetFullPathNameA having
\* answered with some text.
TestValidateCanonicalPath ==
    /\ probe = NoProbe
    /\ \E canonicalPath \in PathInputs, env \in ValidatorEnvs :
         probe' = [fn |-> "ValidateCanonicalPath", canonicalPath |-> canonicalPath,
                   env |-> env,
                   result |-> ValidateCanonicalPath(canonicalPath, env,
                                                    <<"GetFullPathNameA">>)]
    /\ UNCHANGED ProbeOnly

\* The search-path branch of VALIDATION 5 for a match b.exe, GetFullPathNameA
\* having answered with some text for it.
TestValidateFoundPath ==
    /\ probe = NoProbe
    /\ \E canonicalFoundPath \in PathInputs :
         probe' = [fn |-> "ValidateFoundPath", canonicalPath |-> canonicalFoundPath,
                   result |-> ValidateFoundPath(<<"C", ":", BS, "p", "p", BS,
                                                  "b", ".", "e", "x", "e">>,
                                                canonicalFoundPath,
                                                <<"GetFullPathNameA", "FileExists",
                                                  "getenv">>)]
    /\ UNCHANGED ProbeOnly

\* Names handed to FindExecutableInPath: ExtractFileName of a canonical path.
SearchNames ==
    { <<"b", ".", "e", "x", "e">>, <<"b">>, <<"b", ".", "d", "l", "l">>,
      <<"a", ".", "e", "x", "e">>, <<"z">> }

TestFindExecutableInPath ==
    /\ probe = NoProbe
    /\ \E exeName \in SearchNames, pathEnv \in PathValues :
         probe' = [fn |-> "FindExecutableInPath", exeName |-> exeName,
                   pathEnv |-> pathEnv,
                   result |-> FindExecutableInPath(exeName, pathEnv)]
    /\ UNCHANGED ProbeOnly

\* Texts with blanks around them, for SanitizePath.
PaddedInputs ==
    { <<Blank>>,
      <<Blank, "a", ".", "e", "x", "e", Blank>>,
      <<Blank, "w", "w", "/", "a", ".", "e", "x", "e", Blank, Blank>>,
      <<Blank, "w", "w", BS, BS, BS, "a", " ", "b", ".", "e", "x", "e">>,
      <<"C", ":", "/", "w", "w", "/", "/", "a", ".", "e", "x", "e", Blank>> }

\* One call SanitizePath(path) and a second one on what it left in path,
\* GetCurrentDirectoryA answering the same both times.
TestSanitizePath ==
    /\ probe = NoProbe
    /\ \E p \in PathInputs \cup PaddedInputs, cwdOk \in BOOLEAN :
         probe' = [fn |-> "SanitizePath", input |-> p, cwdOk |-> cwdOk,
                   result |-> SanitizePath(p, cwdOk),
                   again |-> SanitizePath(SanitizePath(p, cwdOk).path, cwdOk)]
    /\ UNCHANGED ProbeOnly

NextPath ==
    \/ TestIsPathTraversalSafe
    \/ TestSanitizePath
    \/ TestGetCanonicalPath
    \/ TestFindExecutableInPath
    \/ TestValidateExecutablePath
    \/ TestValidateCanonicalPath
    \/ TestValidateFoundPath

SpecPath == InitPath /\ [][NextPath]_vars

-----------------------------------------------------------------------------
(* ImpersonateTcbToken called directly                                     *)

InitImpersonate ==
    /\ ChainIdle
    /\ probe = NoProbe
    /\ frontend = "Test"
    /\ pRtlAdjustPrivilege = FALSE
    /\ pLogonUserExExW = FALSE

\* One call ImpersonateTcbToken() on a thread that does not impersonate,
\* the OS answering as outcome o.
TestImpersonateTcbToken ==
    /\ probe = NoProbe
    /\ \E o \in ImpersonationOutcomes :
         probe' = [fn |-> "ImpersonateTcbToken", outcome |-> o,
                   result |-> ImpersonateTcbToken(o),
                   compared |-> ComparedEntries(o)]
    /\ UNCHANGED ProbeOnly

NextImpersonate == TestImpersonateTcbToken

SpecImpersonate == InitImpersonate /\ [][NextImpersonate]_vars

-----------------------------------------------------------------------------
(* CheckAdministratorPrivileges                                            *)

SE_PRIVILEGE_ENABLED == 2
ERROR_SUCCESS == 0
MAX_PRIVILEGES_SIZE == 1048576

\* Bytes of a TOKEN_PRIVILEGES with n entries: the count and n
\* LUID_AND_ATTRIBUTES.
SizeofPrivilegeCount == 4
SizeofLuidAndAttributes == 12
PrivilegeListBytes(n) == SizeofPrivilegeCount + n * SizeofLuidAndAttributes

\* SE_PRIVILEGE_ENABLED_BY_DEFAULT | SE_PRIVILEGE_ENABLED.
EnabledAndDefault == 3

\* Attributes & SE_PRIVILEGE_ENABLED on the attribute values of the model.
HasEnabledBit(attributes) == (attributes \div SE_PRIVILEGE_ENABLED) % 2 = 1

\* Privilege lists of the process token: Luid.LowPart and Attributes.
PrivilegeLists ==
    { <<>>,
      <<[luid |-> SE_DEBUG_PRIVILEGE, attributes |-> SE_PRIVILEGE_ENABLED]>>,
      <<[luid |-> SE_TCB_PRIVILEGE, attributes |-> EnabledAndDefault]>>,
      <<[luid |-> SE_DEBUG_PRIVILEGE, attributes |-> SE_PRIVILEGE_ENABLED],
        [luid |-> SE_TCB_PRIVILEGE, attributes |-> 0]>>,
      <<[luid |-> SE_DEBUG_PRIVILEGE, attributes |-> 1],
        [luid |-> SE_TCB_PRIVILEGE, attributes |-> SE_PRIVILEGE_ENABLED]>> }

\* The loop of STEP 1 over the list GetTokenInformation filled in.
HasEnabledTcb(privileges) ==
    \E i \in DOMAIN privileges :
        /\ privileges[i].luid = SE_TCB_PRIVILEGE
        /\ HasEnabledBit(privileges[i].attributes)

\* What the OS answers during one CheckAdministratorPrivileges call, and the
\* facts about the process (privileges, member, elevated).  CheckTokenMembership
\* returns a BOOL, 1 when it succeeded, and writes the membership only then.
AdminEnvs ==
    [openTokenOk : BOOLEAN,
     sizeQuery : {"insufficientBuffer", "otherError", "succeeded"},
     sizeReport : {"zero", "exact", "huge"},
     allocOk : BOOLEAN, fetchOk : BOOLEAN,
     privileges : PrivilegeLists,
     sidOk : BOOLEAN,
     membershipRet : {0, 1}, member : BOOLEAN,
     reopenOk : BOOLEAN, elevationOk : BOOLEAN, elevated : BOOLEAN]

\* privilegesSize after the size query.
PrivilegesSizeOf(e) ==
    CASE e.sizeReport = "zero" -> 0
      [] e.sizeReport = "exact" -> PrivilegeListBytes(Len(e.privileges))
      [] OTHER -> MAX_PRIVILEGES_SIZE + 1

\* STEP 1: "true" and "false" are returns, "next" goes on to STEP 2.
TcbStep(e) ==
    IF ~e.openTokenOk THEN "next"
    ELSE IF e.sizeQuery = "otherError" THEN "false"
    ELSE IF PrivilegesSizeOf(e) = 0 \/ PrivilegesSizeOf(e) > MAX_PRIVILEGES_SIZE
    THEN "false"
    ELSE IF ~e.allocOk THEN "false"
    ELSE IF e.fetchOk /\ HasEnabledTcb(e.privileges) THEN "true"
    ELSE "next"

\* bMember after the test of CheckTokenMembership's BOOL against
\* ERROR_SUCCESS: FALSE is assigned when the call returned non-zero, and the
\* initial FALSE stays when it returned zero, the call having written nothing.
MemberAfterCheck(e) ==
    LET written == IF e.membershipRet # 0 THEN e.member ELSE FALSE
    IN  IF e.membershipRet # ERROR_SUCCESS THEN FALSE ELSE written

\* STEP 2 and STEP 3.
AdministratorStep(e) ==
    IF ~e.sidOk THEN FALSE
    ELSE IF ~MemberAfterCheck(e) THEN FALSE
    ELSE IF ~e.reopenOk THEN FALSE
    ELSE IF e.elevationOk THEN e.elevated
    ELSE FALSE

CheckAdministratorPrivileges(e) ==
    CASE TcbStep(e) = "true" -> TRUE
      [] TcbStep(e) = "false" -> FALSE
      [] OTHER -> AdministratorStep(e)

InitAdmin ==
    /\ ChainIdle
    /\ probe = NoProbe
    /\ frontend = "Test"
    /\ pRtlAdjustPrivilege = FALSE
    /\ pLogonUserExExW = FALSE

TestCheckAdministratorPrivileges ==
    /\ probe = NoProbe
    /\ \E e \in AdminEnvs :
         probe' = [fn |-> "CheckAdministratorPrivileges", env |-> e,
                   ret |-> CheckAdministratorPrivileges(e)]
    /\ UNCHANGED ProbeOnly

NextAdmin == TestCheckAdministratorPrivileges

SpecAdmin == InitAdmin /\ [][NextAdmin]_vars

-----------------------------------------------------------------------------
(* Two threads in GetTrustedInstallerToken                                 *)

\* In this specification pc, gt, threadImpersonating and res map each thread
\* to what the variable holds for the one thread of Spec.  A local that holds
\* a SID, handle or buffer holds the name of the thread whose call obtained
\* it from the OS, NULL otherwise.
Threads == {"t1", "t2"}

\* What each attempt can hold.
AttemptResources == {"sid", "threadToken", "processToken", "groupsBuffer", "tiToken"}

\* Locals of one GetTrustedInstallerToken call before its first statement.
InitialThreadLocals ==
    [ impersonating         |-> FALSE,
      trustedInstallerToken |-> NULL,
      trustedInstallerSid   |-> NULL,
      currentToken          |-> NULL,
      tokenGroupsMemory     |-> NULL ]

\* RevertToSelf on thread t: impersonation is a property of the calling thread.
RevertEveryThread(imp, t) == [u \in DOMAIN imp |-> FALSE]

RevertToSelf(imp, t) == [imp EXCEPT ![t] = FALSE]

ThreadFrame == <<runs, frontend, rawPath, path, priority, pRtlAdjustPrivilege,
                 pLogonUserExExW, cp, badRelease, log, validation, probe>>

InitThreads ==
    /\ pc = [t \in Threads |-> "gt_tcb"]
    /\ gt = [t \in Threads |-> InitialThreadLocals]
    /\ threadImpersonating = [t \in Threads |-> FALSE]
    /\ res = [t \in Threads |-> [r \in AttemptResources |-> "none"]]
    /\ runs = 0
    /\ frontend = "Threads"
    /\ rawPath = <<>>
    /\ path = <<>>
    /\ priority = 0
    /\ pRtlAdjustPrivilege = TRUE
    /\ pLogonUserExExW \in BOOLEAN
    /\ cp = InitialLaunchLocals
    /\ badRelease = {}
    /\ log = <<>>
    /\ validation = NoValidation
    /\ probe = NoProbe

\* STEP 1 on thread t: EnablePrivilege(false, SeTcbPrivilege).
ThreadEnableTcb(t) ==
    /\ pc[t] = "gt_tcb"
    /\ \E status \in NtStatuses :
         pc' = [pc EXCEPT ![t] = IF EnablePrivilege(FALSE, SeTcbPrivilege, status).ret
                                 THEN "gt_sid" ELSE "gt_debug"]
    /\ UNCHANGED <<ThreadFrame, gt, threadImpersonating, res>>

ThreadEnableDebug(t) ==
    /\ pc[t] = "gt_debug"
    /\ \E status \in NtStatuses :
         pc' = [pc EXCEPT ![t] =
                   FallbackStep(EnablePrivilege(FALSE, SeDebugPrivilege, status).ret,
                                "gt_impersonate")]
    /\ UNCHANGED <<ThreadFrame, gt, threadImpersonating, res>>

\* impersonating = ImpersonateTcbToken() on thread t.
ThreadImpersonate(t) ==
    /\ pc[t] = "gt_impersonate"
    /\ \E o \in ImpersonationOutcomes :
         LET r == ImpersonateTcbToken(o)
         IN  /\ threadImpersonating' =
                    [threadImpersonating EXCEPT ![t] = @ \/ r.impersonated]
             /\ gt' = [gt EXCEPT ![t].impersonating = r.ret]
             /\ pc' = [pc EXCEPT ![t] = FallbackStep(r.ret, "gt_tcb_thread")]
    /\ UNCHANGED <<ThreadFrame, res>>

ThreadEnableTcbOnThread(t) ==
    /\ pc[t] = "gt_tcb_thread"
    /\ \E status \in NtStatuses :
         pc' = [pc EXCEPT ![t] =
                   FallbackStep(EnablePrivilege(gt[t].impersonating, SeTcbPrivilege,
                                                status).ret, "gt_sid")]
    /\ UNCHANGED <<ThreadFrame, gt, threadImpersonating, res>>

\* STEP 2 on thread t.
ThreadConvertSid(t) ==
    /\ pc[t] = "gt_sid"
    /\ \E ok \in BOOLEAN :
         IF ok
         THEN /\ gt' = [gt EXCEPT ![t].trustedInstallerSid = t]
              /\ res' = [res EXCEPT ![t]["sid"] = "held"]
              /\ pc' = [pc EXCEPT ![t] = "gt_open"]
         ELSE /\ pc' = [pc EXCEPT ![t] = "gt_cleanup"]
              /\ UNCHANGED <<gt, res>>
    /\ UNCHANGED <<ThreadFrame, threadImpersonating>>

\* STEP 3 on thread t: OpenThreadToken(GetCurrentThread(), ...) when the
\* local flag is set, which the OS refuses on a thread that does not
\* impersonate, OpenProcessToken otherwise.
ThreadOpenCurrent(t) ==
    /\ pc[t] = "gt_open"
    /\ \E ok \in (IF gt[t].impersonating /\ ~threadImpersonating[t]
                   THEN {FALSE} ELSE BOOLEAN) :
         IF ok
         THEN /\ gt' = [gt EXCEPT ![t].currentToken = t]
              /\ res' = [res EXCEPT ![t][IF gt[t].impersonating THEN "threadToken"
                                         ELSE "processToken"] = "held"]
              /\ pc' = [pc EXCEPT ![t] = "gt_compose"]
         ELSE /\ pc' = [pc EXCEPT ![t] = "gt_cleanup"]
              /\ UNCHANGED <<gt, res>>
    /\ UNCHANGED <<ThreadFrame, threadImpersonating>>

\* How STEP 4 to STEP 7 end.
ComposeOutcomes ==
    {"sizeRefused", "allocationFailed", "fetchFailed", "unbound", "logonFailed", "token"}

\* STEP 4 to STEP 7 on thread t: the block is allocated unless the size
\* query or the allocation stopped the function, and LogonUserExExW is
\* reached only through a resolved binding.
ThreadCompose(t) ==
    /\ pc[t] = "gt_compose"
    /\ \E outcome \in ComposeOutcomes :
         /\ outcome = "unbound" <=> (~pLogonUserExExW /\ outcome \notin
                                        {"sizeRefused", "allocationFailed", "fetchFailed"})
         /\ LET allocated == outcome \notin {"sizeRefused", "allocationFailed"}
            IN  /\ gt' = [gt EXCEPT ![t].tokenGroupsMemory = IF allocated THEN t ELSE NULL,
                                    ![t].trustedInstallerToken =
                                        IF outcome = "token" THEN t ELSE NULL]
                /\ res' = [res EXCEPT ![t]["groupsBuffer"] =
                                          IF allocated THEN "held" ELSE "none",
                                      ![t]["tiToken"] =
                                          IF outcome = "token" THEN "held" ELSE "none"]
    /\ pc' = [pc EXCEPT ![t] = "gt_cleanup"]
    /\ UNCHANGED <<ThreadFrame, threadImpersonating>>

\* A resource after the cleanup of the attempt that held it.
Released(state) == IF state = "held" THEN "released" ELSE state

\* Cleanup and return on thread t: RevertToSelf when the local flag is set,
\* FreeSid, and the guards release the handle and the block; the token goes
\* to the caller.
ThreadCleanupAndReturn(t) ==
    /\ pc[t] = "gt_cleanup"
    /\ threadImpersonating' = IF gt[t].impersonating
                              THEN RevertToSelf(threadImpersonating, t)
                              ELSE threadImpersonating
    /\ res' = [res EXCEPT ![t] = [r \in AttemptResources |->
                                     IF r = "tiToken" THEN res[t][r]
                                     ELSE Released(res[t][r])]]
    /\ pc' = [pc EXCEPT ![t] = "returned"]
    /\ UNCHANGED <<ThreadFrame, gt>>

NextThreads ==
    \E t \in Threads :
        \/ ThreadEnableTcb(t)
        \/ ThreadEnableDebug(t)
        \/ ThreadImpersonate(t)
        \/ ThreadEnableTcbOnThread(t)
        \/ ThreadConvertSid(t)
        \/ ThreadOpenCurrent(t)
        \/ ThreadCompose(t)
        \/ ThreadCleanupAndReturn(t)

SpecThreads == InitThreads /\ [][NextThreads]_vars

-----------------------------------------------------------------------------
(* SmartHandle as a class: guards constructed, reset, released, moved and  *)
(* destroyed in any order                                                  *)

\* Guard objects of the scenario and the handles the OS can hand out.
Guards == {"a", "b"}
OsHandles == {"h1", "h2", "h3"}

\* Number of member calls in a scenario.
MaxHandleOps == 5

\* What a caller passes to SmartHandle(h) or Reset(h): the result of an
\* API that returns a handle not handed out before, or NULL or
\* INVALID_HANDLE_VALUE when it failed (Reset() passes the latter).
Obtainable(obtained) == {NULL, INVALID_HANDLE_VALUE} \cup (OsHandles \ obtained)

\* SmartHandle::Get.
SmartHandleGet(handle_) == handle_

\* SmartHandle::Release: the value returned and the value handle_ is left with.
SmartHandleRelease(handle_) == [ret |-> handle_, handle_ |-> INVALID_HANDLE_VALUE]

\* operator=(SmartHandle&&) on another object: CloseHandle(handle_).
SmartHandleMoveAssign(handle_) == <<<<"release", handle_>>>>

\* A guard that does not exist (yet, or any more).
NoGuard == [alive |-> FALSE, handle_ |-> INVALID_HANDLE_VALUE, last |-> "none"]

\* In this specification gt maps each guard to its state, res is the set of
\* handles the OS has handed out, cp the set of handles given up by Release,
\* log the CloseHandle calls and runs the number of member calls made.
InitHandles ==
    /\ gt = [g \in Guards |-> NoGuard]
    /\ res = {}
    /\ cp = {}
    /\ log = <<>>
    /\ runs = 0
    /\ pc = "handles"
    /\ frontend = "Handles"
    /\ rawPath = <<>>
    /\ path = <<>>
    /\ priority = 0
    /\ pRtlAdjustPrivilege = FALSE
    /\ pLogonUserExExW = FALSE
    /\ threadImpersonating = FALSE
    /\ badRelease = {}
    /\ validation = NoValidation
    /\ probe = NoProbe

HandleFrame ==
    UNCHANGED <<pc, frontend, rawPath, path, priority, pRtlAdjustPrivilege,
                pLogonUserExExW, threadImpersonating, badRelease, validation, probe>>

HandleOp == runs < MaxHandleOps /\ runs' = runs + 1 /\ HandleFrame

\* SmartHandle().
HandleConstructDefault(g) ==
    /\ HandleOp
    /\ ~gt[g].alive
    /\ gt' = [gt EXCEPT ![g] = [alive |-> TRUE, handle_ |-> INVALID_HANDLE_VALUE,
                                last |-> "default"]]
    /\ UNCHANGED <<res, cp, log>>

\* SmartHandle(h).
HandleConstruct(g) ==
    /\ HandleOp
    /\ ~gt[g].alive
    /\ \E h \in Obtainable(res) :
         /\ gt' = [gt EXCEPT ![g] = [alive |-> TRUE, handle_ |-> h, last |-> "holds"]]
         /\ res' = res \cup ({h} \cap OsHandles)
    /\ UNCHANGED <<cp, log>>

\* SmartHandle(SmartHandle&& other).
HandleMoveConstruct(g, other) ==
    /\ HandleOp
    /\ ~gt[g].alive
    /\ gt[other].alive
    /\ gt' = [gt EXCEPT ![g] = [alive |-> TRUE, handle_ |-> gt[other].handle_,
                                last |-> "holds"],
                        ![other] = [alive |-> TRUE, handle_ |-> INVALID_HANDLE_VALUE,
                                    last |-> "movedFrom"]]
    /\ UNCHANGED <<res, cp, log>>

\* operator=(SmartHandle&& other); nothing happens when other is *this.
HandleMoveAssign(g, other) ==
    /\ HandleOp
    /\ gt[g].alive
    /\ gt[other].alive
    /\ IF g # other
       THEN /\ log' = log \o SmartHandleMoveAssign(gt[g].handle_)
            /\ gt' = [gt EXCEPT ![g] = [alive |-> TRUE, handle_ |-> gt[other].handle_,
                                        last |-> "holds"],
                                ![other] = [alive |-> TRUE,
                                            handle_ |-> INVALID_HANDLE_VALUE,
                                            last |-> "movedFrom"]]
       ELSE UNCHANGED <<gt, log>>
    /\ UNCHANGED <<res, cp>>

\* Reset(h).
HandleReset(g) ==
    /\ HandleOp
    /\ gt[g].alive
    /\ \E h \in Obtainable(res) :
         /\ log' = log \o SmartHandleReset(gt[g].handle_, h)
         /\ gt' = [gt EXCEPT ![g] = [alive |-> TRUE, handle_ |-> h, last |-> "holds"]]
         /\ res' = res \cup ({h} \cap OsHandles)
    /\ cp' = cp

\* Release(): the caller takes the handle.
HandleRelease(g) ==
    /\ HandleOp
    /\ gt[g].alive
    /\ LET r == SmartHandleRelease(gt[g].handle_)
       IN  /\ cp' = cp \cup ({r.ret} \cap OsHandles)
           /\ gt' = [gt EXCEPT ![g] = [alive |-> TRUE, handle_ |-> r.handle_,
                                       last |-> "released"]]
    /\ UNCHANGED <<res, log>>

\* ~SmartHandle().
HandleDestroy(g) ==
    /\ HandleOp
    /\ gt[g].alive
    /\ log' = log \o SmartHandleDestroy(gt[g].handle_)
    /\ gt' = [gt EXCEPT ![g] = NoGuard]
    /\ UNCHANGED <<res, cp>>

NextHandles ==
    \E g \in Guards :
        \/ HandleConstructDefault(g)
        \/ HandleConstruct(g)
        \/ \E other \in Guards \ {g} : HandleMoveConstruct(g, other)
        \/ \E other \in Guards : HandleMoveAssign(g, other)
        \/ HandleReset(g)
        \/ HandleRelease(g)
        \/ HandleDestroy(g)

SpecHandle == InitHandles /\ [][NextHandles]_vars

-----------------------------------------------------------------------------
(* The two front-ends side by side: the gates each one applies             *)

\* What the OS answers along the gates: GetCurrentDirectoryA in SanitizePath,
\* the validator's environment, the two MultiByteToWideChar calls.
GateOutcomes ==
    [cwdOk : BOOLEAN, env : ValidatorEnvs, queryOk : BOOLEAN, convertOk : BOOLEAN]

\* Where a front-end stood when it stopped: the gates it applied in order,
\* and for a launch the arguments of CreateProcessWithTIToken.
GateResult(gates, outcome, wPath, prio) ==
    [gates |-> gates, outcome |-> outcome, wPath |-> wPath, priority |-> prio]

\* TMain::TMain: the form's constructor resolves the bindings.
TMainCalls == <<"ResolveDynamicFunctions">>

\* A RunButtonClick that hands the trimmed text to the validator as it is.
RunButtonClickUnsanitized(text, priorityIndex, o) ==
    LET p0       == Trim(text)
        v        == ValidateExecutablePath(p0, o.env)
        prio     == PriorityClassOf((IF priorityIndex < 0 THEN 2 ELSE priorityIndex) + 1)
        wPathLen == IF o.queryOk THEN Len(p0) + 1 ELSE 0
    IN  IF p0 = <<>> THEN GateResult(<<"Trim">>, "refused", <<>>, 0)
        ELSE IF v.stage = "raised"
        THEN GateResult(<<"Trim", "ValidateExecutablePath">>, "raised", <<>>, 0)
        ELSE IF ~v.ret
        THEN GateResult(<<"Trim", "ValidateExecutablePath">>, "refused", <<>>, 0)
        ELSE IF ~ValidatePriorityValue(prio)
        THEN GateResult(<<"Trim", "ValidateExecutablePath", "ValidatePriorityValue">>,
                        "refused", <<>>, 0)
        ELSE IF wPathLen = 0 \/ wPathLen > MAX_PATH \/ ~o.convertOk
        THEN GateResult(<<"Trim", "ValidateExecutablePath", "ValidatePriorityValue",
                          "MultiByteToWideChar">>, "refused", <<>>, 0)
        ELSE GateResult(<<"Trim", "ValidateExecutablePath", "ValidatePriorityValue",
                          "MultiByteToWideChar", "CreateProcessWithTIToken">>,
                        "launch", MultiByteToWideChar(p0), prio)

\* TMain::RunButtonClick on the text of PathEdit and the index of
\* PriorityCombo, up to the call of CreateProcessWithTIToken.
RunButtonClick(text, priorityIndex, o) ==
    LET p0       == Trim(text)
        s        == SanitizePath(p0, o.cwdOk)
        v        == ValidateExecutablePath(s.path, o.env)
        prio     == PriorityClassOf((IF priorityIndex < 0 THEN 2 ELSE priorityIndex) + 1)
        wPathLen == IF o.queryOk THEN Len(s.path) + 1 ELSE 0
    IN  IF p0 = <<>> THEN GateResult(<<"Trim">>, "refused", <<>>, 0)
        ELSE IF ~s.ret THEN GateResult(<<"Trim", "SanitizePath">>, "refused", <<>>, 0)
        ELSE IF v.stage = "raised"
        THEN GateResult(<<"Trim", "SanitizePath", "ValidateExecutablePath">>,
                        "raised", <<>>, 0)
        ELSE IF ~v.ret
        THEN GateResult(<<"Trim", "SanitizePath", "ValidateExecutablePath">>,
                        "refused", <<>>, 0)
        ELSE IF ~ValidatePriorityValue(prio)
        THEN GateResult(<<"Trim", "SanitizePath", "ValidateExecutablePath",
                          "ValidatePriorityValue">>, "refused", <<>>, 0)
        ELSE IF wPathLen = 0 \/ wPathLen > MAX_PATH \/ ~o.convertOk
        THEN GateResult(<<"Trim", "SanitizePath", "ValidateExecutablePath",
                          "ValidatePriorityValue", "MultiByteToWideChar">>,
                        "refused", <<>>, 0)
        ELSE GateResult(<<"Trim", "SanitizePath", "ValidateExecutablePath",
                          "ValidatePriorityValue", "MultiByteToWideChar",
                          "CreateProcessWithTIToken">>,
                        "launch", MultiByteToWideChar(s.path), prio)

\* RunExecutableFromCommandLine(exePath, priority), up to the call of
\* CreateProcessWithTIToken: the bindings are resolved first.
RunExecutableFromCommandLine(exePath, prio, o) ==
    LET p0       == Trim(exePath)
        s        == SanitizePath(p0, o.cwdOk)
        v        == ValidateExecutablePath(s.path, o.env)
        wPathLen == IF o.queryOk THEN Len(s.path) + 1 ELSE 0
        entered  == <<"ResolveDynamicFunctions", "Trim">>
    IN  IF p0 = <<>> THEN GateResult(entered, "refused", <<>>, 0)
        ELSE IF ~s.ret
        THEN GateResult(entered \o <<"SanitizePath">>, "refused", <<>>, 0)
        ELSE IF v.stage = "raised"
        THEN GateResult(entered \o <<"SanitizePath", "ValidateExecutablePath">>,
                        "raised", <<>>, 0)
        ELSE IF ~v.ret
        THEN GateResult(entered \o <<"SanitizePath", "ValidateExecutablePath">>,
                        "refused", <<>>, 0)
        ELSE IF ~ValidatePriorityValue(prio)
        THEN GateResult(entered \o <<"SanitizePath", "ValidateExecutablePath",
                                     "ValidatePriorityValue">>, "refused", <<>>, 0)
        ELSE IF wPathLen = 0 \/ wPathLen > MAX_PATH \/ ~o.convertOk
        THEN GateResult(entered \o <<"SanitizePath", "ValidateExecutablePath",
                                     "ValidatePriorityValue", "MultiByteToWideChar">>,
                        "refused", <<>>, 0)
        ELSE GateResult(entered \o <<"SanitizePath", "ValidateExecutablePath",
                                     "ValidatePriorityValue", "MultiByteToWideChar",
                                     "CreateProcessWithTIToken">>,
                        "launch", MultiByteToWideChar(s.path), prio)

InitFront ==
    /\ ChainIdle
    /\ probe = NoProbe
    /\ frontend = "Test"
    /\ pRtlAdjustPrivilege = FALSE
    /\ pLogonUserExExW = FALSE

\* The same text and the same priority given to both front-ends, the OS
\* answering both alike.
TestFrontEnds ==
    /\ probe = NoProbe
    /\ \E text \in ChainPaths, priorityIndex \in GuiPriorityIndexes, o \in GateOutcomes :
         probe' = [fn |-> "FrontEnds", text |-> text, priorityIndex |-> priorityIndex,
                   outcomes |-> o,
                   gui |-> RunButtonClick(text, priorityIndex, o),
                   guiCalls |-> TMainCalls \o RunButtonClick(text, priorityIndex, o).gates,
                   cli |-> RunExecutableFromCommandLine(
                               text,
                               PriorityClassOf((IF priorityIndex < 0 THEN 2
                                                ELSE priorityIndex) + 1),
                               o)]
    /\ UNCHANGED ProbeOnly

NextFront == TestFrontEnds

SpecFront == InitFront /\ [][NextFront]_vars

-----------------------------------------------------------------------------
(* Reading the log                                                         *)

\* Positions of the log entries of a name, and how many there are.
Named(name) == {i \in DOMAIN log : log[i][1] = name}
CountCalls(name) == Cardinality(Named(name))

\* GetTrustedInstallerToken has returned to CreateProcessWithTIToken in the
\* current run.
TokenFunctionReturned == Named("return GetTrustedInstallerToken") # {}

\* Successful ImpersonateLoggedOnUser calls of the current run.
ImpersonationsEntered ==
    Cardinality({i \in Named("ImpersonateLoggedOnUser") : log[i][2]})

-----------------------------------------------------------------------------
(* Properties of the launch chain                                          *)

\* C1: once GetTrustedInstallerToken has returned, whatever step it failed
\* at, the calling thread does not impersonate; RevertToSelf was called once
\* if impersonation was entered and not at all otherwise.  The thread never
\* impersonates outside GetTrustedInstallerToken.
NonImpersonatingAfterReturn ==
    /\ pc \in {"idle", "fe_trim", "fe_sanitize", "fe_validate", "fe_priority",
               "fe_convert", "cpw_enable", "cpw_token", "cpw_create", "done"}
         => ~threadImpersonating
    /\ TokenFunctionReturned =>
         /\ ~threadImpersonating
         /\ CountCalls("RevertToSelf") = ImpersonationsEntered
         /\ CountCalls("RevertToSelf") <= 1

\* Impersonation was entered, the TCB enable on the thread failed, and the
\* function has returned NULL.
RevertedAfterThreadTcbFailure ==
    /\ pc = "cpw_token"
    /\ ImpersonationsEntered = 1
    /\ CountCalls("RevertToSelf") = 1
    /\ CountCalls("ConvertStringSidToSidA") = 0
    /\ cp.tiToken = NULL
    /\ ~threadImpersonating

\* The six priority classes.
PriorityClasses == {64, 16384, 32, 32768, 128, 256}

\* The gates of a run as the log shows them, each with its outcome.
IsGate(e) ==
    \/ e[1] \in {"SanitizePath", "ValidateExecutablePath", "ValidatePriorityValue",
                 "return GetTrustedInstallerToken", "CreateProcessWithTokenW"}
    \/ e[1] = "EnablePrivilege" /\ e[2] = SE_IMPERSONATE_PRIVILEGE
GateOutcome(e) ==
    CASE e[1] = "SanitizePath" -> <<"sanitize", e[2]>>
      [] e[1] = "ValidateExecutablePath" -> <<"validate", e[2]>>
      [] e[1] = "ValidatePriorityValue" -> <<"priority", e[2] \in PriorityClasses /\ e[3]>>
      [] e[1] = "EnablePrivilege" -> <<"impersonate privilege", e[4]>>
      [] e[1] = "return GetTrustedInstallerToken" -> <<"token", e[2] # "NULL">>
      [] OTHER -> <<"create", TRUE>>
GateTrace ==
    LET gates == SelectSeq(log, IsGate)
    IN  [i \in 1..Len(gates) |-> GateOutcome(gates[i])]
GateOrder ==
    <<"sanitize", "validate", "priority", "impersonate privilege", "token", "create">>

\* C2: the gates are passed in the order sanitize, validate, priority,
\* Impersonate privilege, token, process creation; a gate is attempted only
\* when every earlier one succeeded, so CreateProcessWithTokenW is invoked
\* only after all of them did, and a failed gate is the last thing a run does.
HardGates ==
    /\ Len(GateTrace) <= Len(GateOrder)
    /\ \A i \in 1..Len(GateTrace) :
         /\ GateTrace[i][1] = GateOrder[i]
         /\ i < Len(GateTrace) => GateTrace[i][2]
    /\ \A i \in DOMAIN log :
         IsGate(log[i]) /\ ~GateOutcome(log[i])[2] =>
             /\ i = Len(log)
             /\ pc \in {"cpw_token", "done"}
             /\ pc = "done" => cp.ret = FALSE
    /\ \A i \in Named("CreateProcessWithTokenW") :
         /\ Len(GateTrace) = Len(GateOrder)
         /\ validation.ret
         /\ priority \in PriorityClasses
         /\ log[i][2] # "NULL"

\* A run that passed every gate and created the process.
ProcessCreatedAfterAllGates ==
    /\ pc = "done"
    /\ cp.ret = TRUE
    /\ Len(GateTrace) = Len(GateOrder)
    /\ CountCalls("CreateProcessWithTokenW") = 1

\* The steps of the privilege fallback as the log shows them.
IsFallbackStep(e) ==
    \/ e[1] = "EnablePrivilege" /\ e[2] # SE_IMPERSONATE_PRIVILEGE
    \/ e[1] = "return ImpersonateTcbToken"
FallbackOutcome(e) ==
    CASE e[1] = "return ImpersonateTcbToken" -> <<"impersonate", e[2]>>
      [] e[2] = SE_TCB_PRIVILEGE /\ ~e[3] -> <<"TCB on process", e[4]>>
      [] e[2] = SE_TCB_PRIVILEGE /\ e[3] -> <<"TCB on thread", e[4]>>
      [] e[2] = SE_DEBUG_PRIVILEGE /\ ~e[3] -> <<"Debug on process", e[4]>>
      [] OTHER -> <<"other", e[4]>>
FallbackTrace ==
    LET steps == SelectSeq(log, IsFallbackStep)
    IN  [i \in 1..Len(steps) |-> FallbackOutcome(steps[i])]
FallbackOrder == <<"TCB on process", "Debug on process", "impersonate", "TCB on thread">>

\* Position in the log of the n-th fallback step.
FallbackPosition(n) ==
    CHOOSE i \in DOMAIN log :
        /\ IsFallbackStep(log[i])
        /\ Cardinality({j \in 1..i : IsFallbackStep(log[j])}) = n

\* C3: the fallback steps come in the order TCB on the process, Debug on
\* the process, ImpersonateTcbToken, TCB on the thread; Debug is attempted
\* only after TCB failed, each later step only after the one before it
\* succeeded.  After a failed fallback step nothing follows but the revert
\* and the return of NULL: no SID conversion, no token open, no allocation,
\* no exchange.
FallbackOrdering ==
    /\ Len(FallbackTrace) <= Len(FallbackOrder)
    /\ \A n \in 1..Len(FallbackTrace) :
         /\ FallbackTrace[n][1] = FallbackOrder[n]
         /\ n = 1 /\ Len(FallbackTrace) > 1 => ~FallbackTrace[n][2]
         /\ n > 1 /\ n < Len(FallbackTrace) => FallbackTrace[n][2]
         /\ n > 1 /\ ~FallbackTrace[n][2] =>
              \A j \in DOMAIN log : j > FallbackPosition(n) =>
                  \/ log[j][1] = "RevertToSelf"
                  \/ log[j][1] = "return GetTrustedInstallerToken" /\ log[j][2] = "NULL"

\* The whole fallback was walked and its last step failed.
FallbackFailedAtThreadTcb ==
    /\ pc = "cpw_token"
    /\ Len(FallbackTrace) = 4
    /\ ~FallbackTrace[4][2]
    /\ cp.tiToken = NULL

\* Resources GetTrustedInstallerToken acquires for its own use.
TokenIntermediates == {"sid", "threadToken", "processToken", "groupsBuffer"}

\* C6: no intermediate resource of GetTrustedInstallerToken is ever released
\* while not held (twice, or without having been acquired), and once the
\* function has returned none is still held: the SID, the opened token
\* handle and the group buffer were each released once if acquired.
IntermediatesReleasedOnce ==
    /\ badRelease \cap TokenIntermediates = {}
    /\ TokenFunctionReturned =>
         /\ \A r \in TokenIntermediates : res[r] # "held"
         /\ CountCalls("FreeSid")
              = Cardinality({i \in Named("ConvertStringSidToSidA") : log[i][2]})
         /\ Cardinality({i \in Named("CloseHandle") :
                            Len(log[i]) = 2
                            /\ log[i][2] \in {"threadToken", "processToken"}})
              = Cardinality({i \in Named("OpenThreadToken") : log[i][2]})
                + Cardinality({i \in Named("OpenProcessToken") :
                                  Len(log[i]) = 2 /\ log[i][2]})
         /\ CountCalls("LocalFree")
              = Cardinality({i \in Named("LocalAlloc") : log[i][3]})

\* The function failed at the exchange, after acquiring all three.
AllIntermediatesReleased ==
    /\ pc = "cpw_token"
    /\ cp.tiToken = NULL
    /\ res["sid"] = "released"
    /\ res["threadToken"] = "released"
    /\ res["groupsBuffer"] = "released"
    /\ CountCalls("LogonUserExExW") = 1

\* C7: when CreateProcessWithTIToken has returned, the token, if one was
\* acquired, has been closed once, whether the creation succeeded or not;
\* the new process's and thread's handles have been closed once after a
\* successful creation and not touched after a failed one.
LaunchHandlesClosed ==
    /\ badRelease \cap {"tiToken", "newProcess", "newThread"} = {}
    /\ pc = "done" =>
         /\ res["tiToken"] \in {"none", "released"}
         /\ CountCalls("CreateProcessWithTokenW") = 1 => res["tiToken"] = "released"
         /\ cp.created => res["newProcess"] = "released" /\ res["newThread"] = "released"
         /\ ~cp.created => res["newProcess"] = "none" /\ res["newThread"] = "none"

\* The creation failed and the token was closed all the same.
TokenClosedAfterFailedCreation ==
    /\ pc = "done"
    /\ CountCalls("CreateProcessWithTokenW") = 1
    /\ ~cp.created
    /\ res["tiToken"] = "released"
    /\ res["newProcess"] = "none"

\* C8: a failed EnablePrivilege(false, SeImpersonatePrivilege) is the last
\* thing CreateProcessWithTIToken does: it returns false, and the run has
\* not entered GetTrustedInstallerToken, touched another privilege,
\* impersonated, acquired anything or created a process.
ImpersonateFailureStops ==
    \A i \in Named("EnablePrivilege") :
        log[i][2] = SE_IMPERSONATE_PRIVILEGE /\ ~log[i][4] =>
            /\ i = Len(log)
            /\ pc = "done"
            /\ cp.ret = FALSE
            /\ CountCalls("GetTrustedInstallerToken") = 0
            /\ \A j \in Named("RtlAdjustPrivilege") : log[j][2] = SE_IMPERSONATE_PRIVILEGE
            /\ CountCalls("ImpersonateTcbToken") = 0
            /\ CountCalls("ImpersonateLoggedOnUser") = 0
            /\ CountCalls("CreateProcessWithTokenW") = 0
            /\ ~threadImpersonating
            /\ \A r \in Resources : res[r] = "none"

\* The primitive was reached and refused the Impersonate privilege.
ImpersonateRefused ==
    /\ pc = "done"
    /\ cp.ret = FALSE
    /\ CountCalls("RtlAdjustPrivilege") = 1
    /\ \E i \in Named("EnablePrivilege") :
         log[i][2] = SE_IMPERSONATE_PRIVILEGE /\ ~log[i][4]

\* C10: the string CreateProcessWithTokenW receives is the canonical path
\* ValidateExecutablePath made its existence, extension and executable
\* checks on.
LaunchedPathIsValidatedPath ==
    \A i \in Named("CreateProcessWithTokenW") :
        log[i][3] = [k \in 1..Len(validation.validatedPath) |->
                        <<"L", validation.validatedPath[k]>>]

-----------------------------------------------------------------------------
(* Properties of EnablePrivilege                                           *)

\* C4: for a privilege other than 7, 20 and 29, with either thread flag,
\* EnablePrivilege returns false and does not call RtlAdjustPrivilege.
UnlistedPrivilegeRefused ==
    probe.fn = "EnablePrivilege"
    /\ probe.privilege_value \notin {7, 20, 29}
        => probe.ret = FALSE /\ probe.calls = <<>>

\* The test-suite's invalid privilege, with the binding resolved, on the
\* thread, the primitive ready to succeed.
InvalidPrivilegeProbed ==
    /\ probe.fn = "EnablePrivilege"
    /\ probe.privilege_value = InvalidPrivilegeProbe
    /\ probe.binding
    /\ probe.impersonating
    /\ probe.status = 0
    /\ probe.ret = FALSE

\* C5: for privilege 7, 20 or 29 with the binding resolved, EnablePrivilege
\* calls RtlAdjustPrivilege once, with enable = true and the caller's thread
\* flag, and returns true exactly when the status is not negative; with the
\* binding NULL it returns false and calls nothing, whatever the privilege.
ListedPrivilegeAdjusted ==
    probe.fn = "EnablePrivilege" =>
        /\ probe.binding /\ probe.privilege_value \in {7, 20, 29} =>
             /\ probe.calls = << <<"RtlAdjustPrivilege", probe.privilege_value, TRUE,
                                   probe.impersonating>> >>
             /\ probe.ret = (probe.status >= 0)
        /\ ~probe.binding => probe.ret = FALSE /\ probe.calls = <<>>

\* Debug on the thread, answered with a positive status.
PositiveStatusAccepted ==
    /\ probe.fn = "EnablePrivilege"
    /\ probe.binding
    /\ probe.privilege_value = 20
    /\ probe.impersonating
    /\ probe.status > 0
    /\ probe.ret = TRUE
    /\ Len(probe.calls) = 1

-----------------------------------------------------------------------------
(* Properties of the path validator                                        *)

\* The text holds "..\" or "../" somewhere, or one of < > " | ? *.
Occurs(sub, p) == \E i \in 1..(Len(p) - Len(sub) + 1) : SubSeq(p, i, i + Len(sub) - 1) = sub
HasTraversalOrSuspicious(p) ==
    \/ Occurs(<<".", ".", BS>>, p)
    \/ Occurs(<<".", ".", "/">>, p)
    \/ \E i \in 1..Len(p) : p[i] \in {"<", ">", "\"", "|", "?", "*"}

\* C9: IsPathTraversalSafe is false for every text holding "..\", "../" or
\* one of < > " | ? *; ValidateExecutablePath is false for every such input,
\* and whenever the canonical form of the input or of the search-path match
\* is such a text, so the path it accepts never is one.
TraversalAndSuspiciousRejected ==
    /\ probe.fn = "IsPathTraversalSafe" /\ HasTraversalOrSuspicious(probe.input)
         => probe.ret = FALSE
    /\ probe.fn = "ValidateExecutablePath" =>
         /\ HasTraversalOrSuspicious(probe.input) => ~probe.result.ret
         /\ probe.result.ret =>
              /\ ~HasTraversalOrSuspicious(probe.result.validatedPath)
              /\ ~HasTraversalOrSuspicious(GetCanonicalPath(probe.input, TRUE))
    /\ probe.fn \in {"ValidateCanonicalPath", "ValidateFoundPath"}
         /\ HasTraversalOrSuspicious(probe.canonicalPath)
         => ~probe.result.ret

\* An input with "..\" after its first character, refused before the
\* canonical conversion.
EmbeddedTraversalRefused ==
    /\ probe.fn = "ValidateExecutablePath"
    /\ probe.input # <<>>
    /\ Occurs(<<".", ".", BS>>, Tail(probe.input))
    /\ probe.input[1] = "w"
    /\ probe.env.fullPathOk
    /\ probe.result.stage = "traversal"
    /\ ~probe.result.ret

\* C11: ValidateExecutablePath refuses the empty path and every path longer
\* than MAX_PATH in its first step: the refusal is decided there, whatever
\* else the text holds, and no OS call (canonical conversion, file-system
\* access, search-path lookup) has been made.
EmptyAndOverlongRefusedFirst ==
    probe.fn = "ValidateExecutablePath"
    /\ (probe.input = <<>> \/ Len(probe.input) > MAX_PATH)
        => /\ ~probe.result.ret
           /\ probe.result.calls = <<>>
           /\ probe.result.stage = (IF probe.input = <<>> THEN "empty" ELSE "length")

\* An overlong text that also holds "..\", with every OS call ready to
\* succeed.
OverlongTraversalRefusedForLength ==
    /\ probe.fn = "ValidateExecutablePath"
    /\ Len(probe.input) = MAX_PATH + 1
    /\ probe.input[1] = "."
    /\ probe.env.fullPathOk
    /\ probe.result.stage = "length"
    /\ probe.result.calls = <<>>
    /\ ~probe.result.ret

\* C12: ValidateExecutablePath returns true only for a final path (the
\* canonical input or the canonical search-path match) whose extension is,
\* without regard to case, .exe, .bat, .cmd or .com; for a final path with
\* another extension it returns false without making the executable-access
\* check.
OnlyListedExtensionsAccepted ==
    probe.fn = "ValidateExecutablePath" =>
        LET ext == LowerCase(ExtractFileExt(probe.result.validatedPath))
            listed == ext \in { <<".", "e", "x", "e">>, <<".", "b", "a", "t">>,
                                <<".", "c", "m", "d">>, <<".", "c", "o", "m">> }
        IN  /\ probe.result.ret => listed
            /\ probe.result.validatedPath # <<>> /\ ~listed =>
                 /\ ~probe.result.ret
                 /\ \A i \in DOMAIN probe.result.calls :
                      probe.result.calls[i] \notin {"GetFileVersionInfoSizeA", "CreateFileA"}

\* A library found on the search path: it exists, has a version resource
\* and can be opened, and is refused for its extension.
LibraryOnSearchPathRefused ==
    /\ probe.fn = "ValidateExecutablePath"
    /\ probe.input = <<"b", ".", "d", "l", "l">>
    /\ probe.result.validatedPath = <<"C", ":", BS, "p", "p", BS, "b", ".", "d", "l", "l">>
    /\ probe.result.stage = "extension"
    /\ ~probe.result.ret

\* An already-canonical absolute path: a drive root followed by components
\* separated by single backslashes, none of them "." or "..", none ending in
\* a period or a blank, and no separator at the end.
IsCanonicalAbsolute(p) ==
    /\ Len(p) > 3
    /\ p[2] = ":"
    /\ p[3] = BS
    /\ p[1] \notin {BS, "/", ":", "."}
    /\ \A i \in 4..Len(p) : p[i] \notin {"/", ":"}
    /\ p[Len(p)] # BS
    /\ \A i \in 4..(Len(p) - 1) : ~(p[i] = BS /\ p[i + 1] = BS)
    /\ p[4] # BS
    /\ \A i \in 4..Len(p) :
         (i = Len(p) \/ p[i + 1] = BS) => p[i] \notin {".", Blank}

\* C13: GetCanonicalPath returns an already-canonical absolute path
\* unchanged, and applied to a non-empty result of its own it returns that
\* result.
CanonicalPathIdempotent ==
    probe.fn = "GetCanonicalPath" /\ probe.fullPathOk =>
        /\ IsCanonicalAbsolute(probe.input) => probe.ret = probe.input
        /\ probe.ret # <<>> => probe.again = probe.ret

\* C14: GetCanonicalPath returns the empty string for the empty input and
\* whenever GetFullPathNameA returns 0 or a size that does not fit the
\* buffer; ValidateExecutablePath then returns false at that step, with no
\* file looked up and nothing validated in place of the input.
EmptyCanonicalOnFailure ==
    /\ probe.fn = "GetCanonicalPath"
       /\ (probe.input = <<>> \/ probe.answer # "resolved")
           => probe.ret = <<>>
    /\ probe.fn = "GetCanonicalPath" /\ probe.input # <<>> /\ probe.answer = "resolved"
           => probe.ret # <<>>
    /\ probe.fn = "ValidateExecutablePath"
       /\ probe.input # <<>> /\ Len(probe.input) <= MAX_PATH
       /\ IsPathTraversalSafe(probe.input)
       /\ ~probe.env.fullPathOk
           => /\ ~probe.result.ret
              /\ probe.result.stage = "canonical"
              /\ probe.result.validatedPath = <<>>
              /\ probe.result.calls = <<"GetFullPathNameA">>

\* An existing executable is refused because its path could not be resolved.
ExistingFileRefusedUnresolved ==
    /\ probe.fn = "ValidateExecutablePath"
    /\ probe.input = <<"a", ".", "e", "x", "e">>
    /\ ~probe.env.fullPathOk
    /\ ~probe.result.ret
    /\ probe.result.stage = "canonical"

-----------------------------------------------------------------------------
(* Properties of the group list                                            *)

\* The size query of the current run: GetTokenInformation with a NULL buffer
\* of length 0.
SizeQueries ==
    {i \in Named("GetTokenInformation") : log[i][2] = 0}

\* The fetch of the current run: GetTokenInformation into the block.
Fetches ==
    {i \in Named("GetTokenInformation") : log[i][2] # 0}

SizeRefused(size) ==
    size = 0 \/ size < SizeofTokenGroups \/ size > MaxTokenGroupsSize

\* C15: when the size query fails with an error other than
\* ERROR_INSUFFICIENT_BUFFER, or reports 0, less than sizeof(TOKEN_GROUPS) or
\* more than 65536, GetTrustedInstallerToken allocates nothing, fetches no
\* group list, makes no logon exchange and returns NULL.
BadSizeAborts ==
    \A i \in SizeQueries :
        log[i][3] = "otherError" \/ SizeRefused(gt.tokenGroupsSize) =>
            /\ \A j \in DOMAIN log :
                 j > i => log[j][1] \notin {"LocalAlloc", "GetTokenInformation",
                                            "LogonUserExExW"}
            /\ ~gt.allocated
            /\ gt.tokenGroups = <<>>
            /\ gt.exchanged = <<>>
            /\ gt.trustedInstallerToken = NULL
            /\ pc \notin {"gt_alloc", "gt_fetch", "gt_logon"}
            /\ \A j \in Named("return GetTrustedInstallerToken") : log[j][2] = NULL

\* The function returned NULL after a report above the ceiling.
OversizedReportReturnedNull ==
    /\ pc = "cpw_token"
    /\ SizeQueries # {}
    /\ gt.tokenGroupsSize > MaxTokenGroupsSize
    /\ cp.tiToken = NULL
    /\ CountCalls("LocalAlloc") = 0

\* C16: the block that receives the group list has exactly the size the
\* size query reported, so the length passed to the fetch does not exceed
\* the block's capacity.
AllocatedAsReported ==
    /\ \A i \in Named("LocalAlloc") : log[i][2] = gt.tokenGroupsSize
    /\ gt.allocated => gt.allocatedBytes = gt.tokenGroupsSize
    /\ \A j \in Fetches : log[j][2] <= gt.allocatedBytes

\* C17: the list handed to the logon exchange is the fetched list of n
\* groups with exactly its last entry changed, to the TrustedInstaller SID
\* with OWNER|ENABLED; the other entries and the count are as fetched, and
\* the list is not written again after the exchange.
OnlyLastGroupReplaced ==
    /\ pc = "gt_logon" =>
         /\ Len(gt.tokenGroups) = gt.groupCount
         /\ gt.groupCount >= 1
         /\ gt.tokenGroups[gt.groupCount]
              = [Sid |-> gt.trustedInstallerSid, Attributes |-> "OWNER|ENABLED"]
         /\ \A i \in 1..(gt.groupCount - 1) :
              gt.tokenGroups[i] = FetchedGroups(gt.groupCount)[i]
    /\ Named("LogonUserExExW") # {} =>
         /\ gt.exchanged = gt.tokenGroups
         /\ Len(gt.exchanged) = gt.groupCount
         /\ gt.exchanged[gt.groupCount]
              = [Sid |-> gt.trustedInstallerSid, Attributes |-> "OWNER|ENABLED"]
         /\ \A i \in 1..(gt.groupCount - 1) :
              gt.exchanged[i] = FetchedGroups(gt.groupCount)[i]

-----------------------------------------------------------------------------
(* Properties of ImpersonateTcbToken                                       *)

\* Calls of the probed function with the given name.
ProbeCalls(name) ==
    {i \in DOMAIN probe.result.calls : probe.result.calls[i][1] = name}

\* Positions of the winlogon.exe entries of the probed snapshot.
WinlogonEntries ==
    {i \in DOMAIN probe.outcome.procs : LowerName(probe.outcome.procs[i]) = "winlogon.exe"}

\* C18: ImpersonateTcbToken returns true only if the snapshot and the
\* enumeration succeeded, the walk stopped at the first winlogon.exe entry
\* (whatever its letter case), that process was opened, its token extracted
\* and ImpersonateLoggedOnUser succeeded; when it returns false the thread
\* does not impersonate; it never calls RevertToSelf.
ImpersonationOnlyThroughWinlogon ==
    probe.fn = "ImpersonateTcbToken" =>
        /\ probe.result.ret =>
             /\ probe.outcome.snapshotOk
             /\ probe.outcome.first = "ok"
             /\ WinlogonEntries # {}
             /\ Cardinality(ProbeCalls("Process32NextW")) + 1 = MinOf(WinlogonEntries)
             /\ probe.outcome.openProcessOk
             /\ probe.outcome.openTokenOk
             /\ probe.outcome.impersonateOk
             /\ Cardinality(ProbeCalls("OpenProcess")) = 1
             /\ Cardinality(ProbeCalls("OpenProcessToken")) = 1
             /\ Cardinality(ProbeCalls("ImpersonateLoggedOnUser")) = 1
             /\ probe.result.impersonated
        /\ ~probe.result.ret => ~probe.result.impersonated
        /\ (~probe.outcome.snapshotOk \/ probe.outcome.first # "ok" \/ WinlogonEntries = {}
            \/ ~probe.outcome.openProcessOk \/ ~probe.outcome.openTokenOk
            \/ ~probe.outcome.impersonateOk) => ~probe.result.ret
        /\ ProbeCalls("RevertToSelf") = {}

\* The first of two winlogon entries, spelled in upper case, was taken.
FirstOfTwoWinlogonsTaken ==
    /\ probe.fn = "ImpersonateTcbToken"
    /\ probe.result.ret
    /\ Cardinality(WinlogonEntries) = 2
    /\ Cardinality(ProbeCalls("Process32NextW")) = 2

-----------------------------------------------------------------------------
(* Properties of the command line                                          *)

\* An argument of the form /priority:N or -priority:N, N a decimal number
\* from 1 to 6 written in at most ten digits.
IsPriorityArgument(param) ==
    /\ Len(param) > 10
    /\ Len(param) <= 20
    /\ SubSeq(param, 1, 10) \in
         { <<"/", "p", "r", "i", "o", "r", "i", "t", "y", ":">>,
           <<"-", "p", "r", "i", "o", "r", "i", "t", "y", ":">> }
    /\ \A j \in 11..(Len(param) - 1) : param[j] = "0"
    /\ param[Len(param)] \in {"1", "2", "3", "4", "5", "6"}

\* C19: in CLI mode an argument after the path that is not /priority:N or
\* -priority:N with N from 1 to 6 makes _tWinMain return 1 before
\* RunExecutableFromCommandLine is entered: no binding is resolved, nothing
\* is sanitized or validated, no privilege or token call is made.
BadArgumentExitsFirst ==
    probe.fn = "_tWinMain"
    /\ (\E i \in DOMAIN probe.args : ~IsPriorityArgument(probe.args[i]))
        => /\ pc = "exited"
           /\ probe.returnedEarly
           /\ probe.exitCode = 1
           /\ runs = 0
           /\ log = <<>>
           /\ ~pRtlAdjustPrivilege
           /\ ~pLogonUserExExW
           /\ path = <<>>
           /\ validation = NoValidation
           /\ gt = InitialTokenLocals
           /\ cp = InitialLaunchLocals
           /\ res = NoResources
           /\ ~threadImpersonating

\* A number that fits ten digits and not an int, after a valid flag.
OverflowingNumberExited ==
    /\ pc = "exited"
    /\ probe.fn = "_tWinMain"
    /\ probe.args = << <<"/", "p", "r", "i", "o", "r", "i", "t", "y", ":", "6">>,
                       <<"/", "p", "r", "i", "o", "r", "i", "t", "y", ":",
                         "4", "2", "9", "4", "9", "6", "7", "2", "9", "9">> >>
    /\ probe.exitCode = 1

\* The priority classes of the numbers 1 to 6.
ClassTable ==
    << IDLE_PRIORITY_CLASS, BELOW_NORMAL_PRIORITY_CLASS, NORMAL_PRIORITY_CLASS,
       ABOVE_NORMAL_PRIORITY_CLASS, HIGH_PRIORITY_CLASS, REALTIME_PRIORITY_CLASS >>

\* The class the command line asks for: that of the last flag's number,
\* NORMAL without a flag.
RequestedClass(args) ==
    IF args = <<>> THEN NORMAL_PRIORITY_CLASS
    ELSE ClassTable[DigitValue(args[Len(args)][Len(args[Len(args)])])]

\* C20: the numbers 1 to 6 of the CLI map to IDLE, BELOW_NORMAL, NORMAL,
\* ABOVE_NORMAL, HIGH and REALTIME, as the GUI's indexes do; without a flag
\* the class is NORMAL; the class handed to process creation is that of the
\* last accepted flag.
PriorityFollowsLastFlag ==
    /\ \A n \in 1..6 :
         /\ CliPriorityClass(n) = ClassTable[n]
         /\ PriorityClassOf(n) = CliPriorityClass(n)
    /\ probe.fn = "_tWinMain" /\ ~probe.returnedEarly =>
         /\ priority = RequestedClass(probe.args)
         /\ \A i \in Named("CreateProcessWithTokenW") :
              log[i][4] = RequestedClass(probe.args) + CREATE_NEW_CONSOLE
    /\ \A i \in Named("CreateProcessWithTokenW") :
         /\ log[i][4] = priority + CREATE_NEW_CONSOLE
         /\ \E n \in 1..6 : priority = ClassTable[n]

\* REALTIME asked first, BELOW_NORMAL last: the process is created with
\* BELOW_NORMAL.
LastOfTwoFlagsLaunched ==
    /\ probe.fn = "_tWinMain"
    /\ probe.args = << <<"/", "p", "r", "i", "o", "r", "i", "t", "y", ":", "6">>,
                       <<"-", "p", "r", "i", "o", "r", "i", "t", "y", ":", "2">> >>
    /\ \E i \in Named("CreateProcessWithTokenW") :
         log[i][4] = BELOW_NORMAL_PRIORITY_CLASS + CREATE_NEW_CONSOLE /\ log[i][5]

-----------------------------------------------------------------------------
(* Properties of the launch, continued                                     *)

\* C21: ValidatePriorityValue returns true for the six priority classes and
\* false for every other integer, the numbers 1 to 6, 0 and negative values
\* among them; no later step of a run, the process creation least of all,
\* is reached with another priority.
SixClassesOnly ==
    /\ \A i \in Named("ValidatePriorityValue") :
         log[i][3] = (log[i][2] \in PriorityClasses)
    /\ \A i \in DOMAIN log :
         log[i][1] \in {"EnablePrivilege", "GetTrustedInstallerToken",
                        "CreateProcessWithTokenW"}
             => priority \in PriorityClasses
    /\ \A i \in Named("CreateProcessWithTokenW") :
         log[i][4] - CREATE_NEW_CONSOLE \in PriorityClasses

\* The number 6 of the command line, handed over as it is, was refused
\* after the path had been accepted.
NumberInsteadOfClassRefused ==
    /\ pc = "done"
    /\ cp.ret = FALSE
    /\ priority = 6
    /\ validation.ret
    /\ \E i \in Named("ValidatePriorityValue") :
         i = Len(log) /\ log[i][2] = 6 /\ ~log[i][3]

\* The command-line run is over: the arguments were refused, an exception
\* reached _tWinMain's handler, or RunExecutableFromCommandLine returned.
CliFinished == frontend = "CLI" /\ pc \in {"exited", "raised", "done"}

\* The value _tWinMain returns: 1 from the parser's early returns, success ?
\* 0 : 1 after the run, and the final return 0 after a caught exception.
WinMainExitCode ==
    CASE pc = "exited" -> 1
      [] pc = "raised" -> 0
      [] pc = "done" -> IF cp.ret = TRUE THEN 0 ELSE 1

\* C22: when a command-line run is over, the exit code is 0 exactly when the
\* process was launched, and 1 for every failure.
ExitCodeTellsSuccess ==
    CliFinished =>
        /\ WinMainExitCode \in {0, 1}
        /\ WinMainExitCode = 0 <=> (pc = "done" /\ cp.ret = TRUE /\ cp.created)

\* C23: GetTrustedInstallerToken returns a token only after a LogonUserExExW
\* call that succeeded; with the binding NULL the call is never made, the
\* function returns NULL, and the thread is reverted and every intermediate
\* resource released all the same.
TokenOnlyFromLogon ==
    /\ ~pLogonUserExExW => CountCalls("LogonUserExExW") = 0
    /\ \A i \in Named("return GetTrustedInstallerToken") :
         /\ log[i][2] # NULL =>
              \E j \in Named("LogonUserExExW") : j < i /\ log[j][2]
         /\ ~pLogonUserExExW =>
              /\ log[i][2] = NULL
              /\ ~threadImpersonating
              /\ \A r \in TokenIntermediates : res[r] # "held"

\* The function got as far as STEP 7 with the binding NULL: the groups were
\* composed, nothing was exchanged, and what it acquired has been released.
UnboundLogonReturnedNull ==
    /\ pc = "cpw_token"
    /\ ~pLogonUserExExW
    /\ gt.tokenGroups # <<>>
    /\ gt.exchanged = <<>>
    /\ cp.tiToken = NULL
    /\ res["sid"] = "released"
    /\ res["groupsBuffer"] = "released"
    /\ CountCalls("RevertToSelf") = 1

\* The directories PATH lists, in order: its non-empty entries between
\* semicolons.
ListedDirectories(pathEnv) ==
    IF pathEnv = PathUnset THEN <<>> ELSE NonEmpty(Split(pathEnv, {";"}))

\* The file called name in the directory dir.
FileIn(dir, name) == IF dir[Len(dir)] = BS THEN dir \o name ELSE dir \o <<BS>> \o name

\* The file called name in the first of the directories that holds one, ""
\* when none does.
RECURSIVE FirstDirectoryHolding(_, _)
FirstDirectoryHolding(dirs, name) ==
    IF dirs = <<>> THEN <<>>
    ELSE IF FileExists(FileIn(Head(dirs), name)) THEN FileIn(Head(dirs), name)
    ELSE FirstDirectoryHolding(Tail(dirs), name)

\* C24: FindExecutableInPath answers with the file of that name (with .exe
\* appended when it has no extension) in the first listed PATH directory
\* that holds one, and with the empty string when PATH is unset or no
\* listed directory holds it.
PathSearchTakesFirstDirectory ==
    probe.fn = "FindExecutableInPath" =>
        LET searchName == IF ExtractFileExt(probe.exeName) = <<>>
                          THEN probe.exeName \o <<".", "e", "x", "e">>
                          ELSE probe.exeName
            expected == FirstDirectoryHolding(ListedDirectories(probe.pathEnv), searchName)
        IN  /\ probe.result # Raised
            /\ probe.result = <<>> <=> expected = <<>>
            /\ expected # <<>> => FullPathName(probe.result) = FullPathName(expected)

\* The stages of a launch that can fail.
LaunchStages == {"privilege", "impersonation", "token", "creation"}

\* What CreateProcessWithTIToken returns when a stage fails: return false
\* after EnablePrivilege, return false for a NULL token (whichever step of
\* GetTrustedInstallerToken broke out), and success, which is false, after
\* CreateProcessWithTokenW.
ReturnOnFailure == [stage \in LaunchStages |-> FALSE]

\* CreateProcessWithTIToken was called and returned false.
LaunchFailed ==
    /\ pc = "done"
    /\ cp.ret = FALSE
    /\ Named("CreateProcessWithTIToken") # {}

\* The stage at which the launch of the current run failed.
FailedStage ==
    IF Named("CreateProcessWithTokenW") # {} THEN "creation"
    ELSE IF Named("ConvertStringSidToSidA") # {} THEN "token"
    ELSE IF \E i \in Named("return ImpersonateTcbToken") : ~log[i][2]
    THEN "impersonation"
    ELSE "privilege"

\* C25: what CreateProcessWithTIToken returns for a failed launch identifies
\* the stage that failed: it is not what a failure of another stage returns.
FailureIdentifiesStage ==
    LaunchFailed =>
        /\ cp.ret = ReturnOnFailure[FailedStage]
        /\ \A stage \in LaunchStages \ {FailedStage} : ReturnOnFailure[stage] # cp.ret

\* C26: a path ValidateExecutablePath accepts, be it the canonical form of
\* the input or the canonical form of the search-path match, is at most
\* MAX_PATH characters long.
AcceptedPathLengthBounded ==
    (probe.fn = "ValidateExecutablePath" /\ probe.result.ret) =>
        Len(probe.result.validatedPath) <= MAX_PATH

\* CreateProcessWithTIToken was called in the current run and has returned.
LaunchReturned == pc = "done" /\ Named("CreateProcessWithTIToken") # {}

\* C27: CreateProcessWithTIToken returns true exactly when it called
\* CreateProcessWithTokenW and the call succeeded, and one invocation calls
\* it at most once.
TrueOnlyForCreatedProcess ==
    /\ CountCalls("CreateProcessWithTokenW") <= 1
    /\ CountCalls("CreateProcessWithTIToken") <= 1
    /\ LaunchReturned =>
         (cp.ret = TRUE <=> \E i \in Named("CreateProcessWithTokenW") : log[i][5])

\* The token was obtained, the one creation call failed, and the caller was
\* told false.
CreationFailedReturnedFalse ==
    /\ LaunchReturned
    /\ cp.ret = FALSE
    /\ cp.tiToken # NULL
    /\ CountCalls("CreateProcessWithTokenW") = 1
    /\ \A i \in Named("CreateProcessWithTokenW") : ~log[i][5]

\* C30: a first-entry call that fails with another error than
\* ERROR_NO_MORE_FILES makes ImpersonateTcbToken return false at once;
\* ERROR_NO_MORE_FILES ends the search, with no further enumeration call;
\* and the names compared with winlogon.exe are entries the enumeration
\* returned, in its order.
EnumerationEndsDistinguished ==
    (probe.fn = "ImpersonateTcbToken" /\ probe.outcome.snapshotOk) =>
        /\ probe.outcome.first # "ok" =>
             /\ ~probe.result.ret
             /\ ProbeCalls("Process32NextW") = {}
             /\ probe.compared = <<>>
        /\ probe.outcome.first = "ok" =>
             /\ Len(probe.compared) <= Len(probe.outcome.procs)
             /\ probe.compared = SubSeq(probe.outcome.procs, 1, Len(probe.compared))
             /\ Cardinality(ProbeCalls("Process32NextW")) <= Len(probe.outcome.procs)

\* Every OS call of the check succeeded and answered with the facts.
AdminCallsSucceeded ==
    /\ probe.env.openTokenOk
    /\ probe.env.sizeQuery = "insufficientBuffer"
    /\ probe.env.sizeReport = "exact"
    /\ probe.env.allocOk
    /\ probe.env.fetchOk
    /\ probe.env.sidOk
    /\ probe.env.membershipRet = 1
    /\ probe.env.reopenOk
    /\ probe.env.elevationOk

\* C29: with every call succeeding, CheckAdministratorPrivileges returns
\* TRUE when the token has SeTcbPrivilege enabled, and otherwise exactly when
\* the process is a member of Administrators and its token is elevated.
AdminCheckMatchesFacts ==
    (probe.fn = "CheckAdministratorPrivileges" /\ AdminCallsSucceeded) =>
        probe.ret = (HasEnabledTcb(probe.env.privileges)
                     \/ (probe.env.member /\ probe.env.elevated))

\* What the locals of thread t's attempt refer to.
HeldBy(t) ==
    {gt[t].trustedInstallerSid, gt[t].currentToken, gt[t].tokenGroupsMemory,
     gt[t].trustedInstallerToken} \ {NULL}

ResolvedOfProbe == ReplaceChar(FullPathName(probe.input), "/", BS)

\* C31: a result of GetCanonicalPath longer than 3 characters does not end
\* in a backslash, and the result is the resolved path, or the resolved path
\* without its trailing backslash: no other character is removed.
TrailingBackslashRemoved ==
    (probe.fn = "GetCanonicalPath" /\ probe.fullPathOk /\ probe.input # <<>>) =>
        /\ Len(probe.ret) > 3 => probe.ret[Len(probe.ret)] # BS
        /\ \/ probe.ret = ResolvedOfProbe
           \/ ResolvedOfProbe = probe.ret \o <<BS>>

\* A text without separator and without drive.
IsBareName(t) ==
    t # <<>> /\ Pos(<<BS>>, t) = 0 /\ Pos(<<"/">>, t) = 0 /\ Pos(<<":">>, t) # 2

\* A text with a separator that starts with neither a separator nor a drive.
IsRelativeWithSeparators(t) ==
    /\ t # <<>>
    /\ t[1] \notin {BS, "/"}
    /\ Pos(<<":">>, t) # 2
    /\ (Pos(<<BS>>, t) > 0 \/ Pos(<<"/">>, t) > 0)

\* s starts with prefix.
StartsWith(s, prefix) ==
    Len(s) >= Len(prefix) /\ SubSeq(s, 1, Len(prefix)) = prefix

\* What the probed SanitizePath call left in path, given whether a relative
\* path is expected to have been prefixed.
SanitizedAsPromised(prefixExpected) ==
    LET t   == Trim(probe.input)
        out == probe.result.path
    IN  /\ out # <<>> => (out[1] # Blank /\ out[Len(out)] # Blank)
        /\ Pos(<<"/">>, out) = 0
        /\ Pos(<<BS, BS>>, out) = 0
        /\ IsBareName(t) => out = t
        /\ (IsRelativeWithSeparators(t) /\ prefixExpected) =>
               StartsWith(out, CurrentDirectory \o <<BS>>)
        /\ probe.result.ret <=> out # <<>>
        /\ probe.again.path = out

SafeExactlyWithoutTokens ==
    probe.fn = "IsPathTraversalSafe" =>
        probe.ret = ~HasTraversalOrSuspicious(probe.input)

\* The handles ImpersonateTcbToken can obtain.
ImpersonationHandles == {"snapshot", "winlogonProcess", "winlogonToken"}

\* How often the probed call obtained handle h, and how often it closed it.
TimesObtained(h) ==
    Cardinality({i \in DOMAIN probe.result.effects :
                    probe.result.effects[i] = <<"acquire", h>>})
TimesClosed(h) ==
    Cardinality({i \in ProbeCalls("CloseHandle") : probe.result.calls[i][2] = h})

\* C34: whichever way ImpersonateTcbToken returns, each of the snapshot, the
\* process handle and the token handle that it obtained has been closed
\* once, and CloseHandle was called on nothing else.
ImpersonationHandlesClosedOnce ==
    probe.fn = "ImpersonateTcbToken" =>
        /\ \A h \in ImpersonationHandles :
             TimesObtained(h) <= 1 /\ TimesClosed(h) = TimesObtained(h)
        /\ \A i \in ProbeCalls("CloseHandle") :
             probe.result.calls[i][2] \in ImpersonationHandles
        /\ TimesObtained("snapshot") = 1 <=> probe.outcome.snapshotOk
        /\ TimesObtained("winlogonToken") = 1 =>
               TimesObtained("winlogonProcess") = 1

\* OpenProcessToken failed: the snapshot and the process handle were closed,
\* and no token handle was.
ProcessHandleClosedAfterTokenFailure ==
    /\ probe.fn = "ImpersonateTcbToken"
    /\ probe.outcome.openProcessOk
    /\ ~probe.outcome.openTokenOk
    /\ ~probe.result.ret
    /\ TimesClosed("winlogonProcess") = 1
    /\ TimesClosed("snapshot") = 1
    /\ TimesClosed("winlogonToken") = 0

\* The fetch has succeeded and STEP 6 has written its entry.
CompositionDone == pc \in {"gt_logon", "crashed"}

\* C35: the entry STEP 6 overwrites has an index within 0..GroupCount-1 of
\* the fetched list and lies inside the block that was allocated for the
\* list, whatever GroupCount the fetch reported.
OverwrittenIndexInBounds ==
    CompositionDone =>
        LET idx == LastGroupIndex(gt.groupCount)
        IN  /\ ~idx.wrapped
            /\ idx.value \in 0..(gt.groupCount - 1)
            /\ ~EntryOutsideBlock(idx.value + 1, gt.allocatedBytes)

\* Where GetTrustedInstallerToken stands between entering the impersonation
\* and its cleanup.
CompositionStates ==
    {"gt_tcb_thread", "gt_sid", "gt_open", "gt_size", "gt_alloc", "gt_fetch",
     "gt_logon", "gt_cleanup"}

\* The logged calls of STEP 3 to 7: the token open, the size query and the
\* fetch, the logon exchange.
CompositionCalls ==
    {i \in DOMAIN log :
        \/ log[i][1] \in {"OpenThreadToken", "GetTokenInformation", "LogonUserExExW"}
        \/ log[i][1] = "OpenProcessToken" /\ Len(log[i]) = 2}

\* C36: on the fallback path the impersonation lasts over the whole
\* composition: the thread is impersonating from the open of its token to
\* the logon exchange, RevertToSelf comes after every one of those calls,
\* and the token opened is the thread token exactly when the impersonation
\* was entered.
ImpersonationHeldAcrossComposition ==
    /\ (gt.impersonating /\ pc \in CompositionStates) =>
           threadImpersonating /\ Named("RevertToSelf") = {}
    /\ \A r \in Named("RevertToSelf") : \A i \in CompositionCalls : i < r
    /\ (pc \in CompositionStates /\ gt.currentToken # NULL) =>
           (gt.currentToken = "threadToken" <=> gt.impersonating)
    /\ Named("OpenThreadToken") # {} =>
           Named("return ImpersonateTcbToken") # {} /\ gt.impersonating
    /\ \A i \in CompositionCalls :
           log[i][1] = "OpenProcessToken" => ~gt.impersonating

\* The exchange has been called on the fallback path with the thread token
\* open and the thread still impersonating.
ExchangeCalledWhileImpersonating ==
    /\ pc = "gt_cleanup"
    /\ gt.impersonating
    /\ threadImpersonating
    /\ gt.currentToken = "threadToken"
    /\ Named("LogonUserExExW") # {}
    /\ Named("RevertToSelf") = {}

\* How often CloseHandle was called on h.
TimesReleased(h) == Cardinality({i \in DOMAIN log : log[i] = <<"release", h>>})

\* The living guards that hold h.
Holders(h) == {g \in Guards : gt[g].alive /\ gt[g].handle_ = h}

\* A guard is valid exactly when it holds a handle of the OS.
ValidIffRealHandle ==
    \A g \in Guards : gt[g].alive => (IsValid(gt[g].handle_) <=> gt[g].handle_ \in OsHandles)

\* Default-constructed, released and moved-from guards are invalid and
\* Get() returns INVALID_HANDLE_VALUE.
EmptiedGuardsInvalid ==
    \A g \in Guards :
        (gt[g].alive /\ gt[g].last \in {"default", "released", "movedFrom"}) =>
            ~IsValid(gt[g].handle_)
            /\ SmartHandleGet(gt[g].handle_) = INVALID_HANDLE_VALUE

\* CloseHandle is called on valid handles only.
ClosedOnlyValid == \A i \in DOMAIN log : IsValid(log[i][2])

\* A handle a guard took and did not give up is closed once when no guard
\* holds it any more, and not before.
OwnedClosedOnce ==
    \A h \in res \ cp :
        /\ Cardinality(Holders(h)) <= 1
        /\ TimesReleased(h) = IF Holders(h) = {} THEN 1 ELSE 0

\* A handle given up by Release is not closed.
ReleasedNeverClosed == \A h \in cp : TimesReleased(h) = 0

\* C37: under every sequence of constructions, Reset, Release, moves and
\* destructions a guard is valid exactly when its handle is neither NULL
\* nor INVALID_HANDLE_VALUE, emptied guards are invalid and Get() returns
\* INVALID_HANDLE_VALUE, CloseHandle is called on valid handles only, every
\* owned handle is closed once and a released handle never.
GuardContract ==
    frontend = "Handles" =>
        /\ ValidIffRealHandle
        /\ EmptiedGuardsInvalid
        /\ ClosedOnlyValid
        /\ OwnedClosedOnce
        /\ ReleasedNeverClosed

\* The gates in the order the claim names them.
FrontEndGateOrder ==
    <<"Trim", "SanitizePath", "ValidateExecutablePath", "ValidatePriorityValue",
      "MultiByteToWideChar", "CreateProcessWithTIToken">>

\* calls without the resolution of the bindings.
GatesOf(calls) == SelectSeq(calls, LAMBDA c : c # "ResolveDynamicFunctions")

\* The bindings are resolved, and before CreateProcessWithTIToken is called.
ResolvedFirst(calls) ==
    /\ \E i \in DOMAIN calls : calls[i] = "ResolveDynamicFunctions"
    /\ \A i, j \in DOMAIN calls :
         (calls[i] = "ResolveDynamicFunctions" /\ calls[j] = "CreateProcessWithTIToken")
             => i < j

\* C38: for the same text, the same priority and the same answers of the OS
\* the GUI handler and the CLI runner apply the same gates in the same
\* order, both reach CreateProcessWithTIToken or neither does, with the
\* same arguments, and both have resolved the bindings before that call.
FrontEndsAgree ==
    probe.fn = "FrontEnds" =>
        /\ GatesOf(probe.guiCalls) = GatesOf(probe.cli.gates)
        /\ GatesOf(probe.guiCalls) = SubSeq(FrontEndGateOrder, 1, Len(GatesOf(probe.guiCalls)))
        /\ probe.gui.outcome = probe.cli.outcome
        /\ probe.gui.wPath = probe.cli.wPath
        /\ probe.gui.priority = probe.cli.priority
        /\ ResolvedFirst(probe.guiCalls)
        /\ ResolvedFirst(probe.cli.gates)

\* Both front-ends called CreateProcessWithTIToken on a text that
\* SanitizePath had changed.
BothFrontEndsLaunched ==
    /\ probe.fn = "FrontEnds"
    /\ probe.gui.outcome = "launch"
    /\ probe.cli.outcome = "launch"
    /\ probe.gui.wPath # MultiByteToWideChar(Trim(probe.text))
    /\ probe.gui.wPath = probe.cli.wPath

=============================================================================
